---------------------------- MODULE Spec2Model ----------------------------
(***************************************************************************)
(* Voice transcription studio: the response normalizers, the chunk         *)
(* combiner, the chunked transcription service, the provider dispatcher    *)
(* of the UI, the transcription options, the provider calls, the recording *)
(* component, the audio utilities, the recordings route and the result     *)
(* presentation, modelled from the TypeScript sources.                     *)
(*                                                                         *)
(* Every component has its own specification (SpecSentiment, SpecDeepgram, *)
(* SpecCombine, SpecChunks, SpecDispatch, SpecOptions, SpecLanguage,       *)
(* SpecGemini, SpecCall, SpecApp and SpecAppLive, SpecSilence, SpecSlice,  *)
(* SpecStore, SpecPresent); the variables of the other components stay at  *)
(* their idle values.                                                      *)
(*                                                                         *)
(* Optional JavaScript values (null, undefined, a thrown error) are        *)
(* records tagged by a "kind" field.                                       *)
(***************************************************************************)
EXTENDS Integers, Sequences, FiniteSets, TLC

VARIABLES
    \* calculateOverallSentiment (Deepgram route)
    sentimentSegments,   \* the argument: results.sentiment.segments
    overallSentiment,    \* the value returned
    \* processDeepgramResponse (Deepgram route)
    response,            \* the argument: Deepgram's JSON body
    processed,           \* the value returned, or the error thrown
    \* combineTranscriptionResults (transcription-service.ts)
    results,             \* the argument: per-chunk results
    combined,            \* the value returned
    \* transcribeAudioChunks (transcription-service.ts)
    chunks,              \* the argument: the audio chunks
    requests,            \* per chunk: state and payload of its fetch
    issued,              \* per chunk: number of fetches issued for it
    completions,         \* chunk indices in the order their responses arrived
    svcPc,               \* position of the caller of transcribeAudioChunks
    svcOutcome,          \* what the returned promise settled to
    \* transcribeAudioChunks (UI dispatcher, stt-enhanced.tsx)
    transcriptionOptions,\* React state: the TranscriptionOptions
    uiChunks,            \* the argument: the processed chunks
    outbound,            \* the fetches issued, in order
    uiPc,                \* position inside the dispatcher
    loopIndex,           \* i of transcribeWithOpenAI's loop
    simulated,           \* results[] of transcribeWithOpenAI
    uiOutcome,           \* what the dispatcher's promise settled to
    \* detectLanguage (Gemini route)
    text,                \* the argument, as its whitespace-separated words
    detected,            \* the value returned
    \* processGeminiResponse (Gemini route)
    transcriptionText,   \* the argument: the lines of the text, as tokens
    geminiRuns,          \* the values returned by successive calls on it
    \* POST of the two routes, transcribeAudio
    callSite,            \* which of them runs
    callInput,           \* the request received and the environment
    providerRequests,    \* the requests sent to the provider, in order
    providerAnswer,      \* what the provider answered
    callPc,              \* position inside the handler
    callResponse,        \* the response returned, or the error thrown
    \* SpeechToTextApp (stt-enhanced.tsx and its earlier version)
    appVersion,          \* which version of the component runs
    isRecording,         \* React state
    isProcessing,        \* React state
    status,              \* React state
    error,               \* React state; "" for null
    resultFields,        \* React state: transcriptText, timestampedText, jsonOutput
    pipelines,           \* the requests of the session: kind and position
    mediaRecorderRef,    \* the request whose recorder is current; 0 for null
    audioChunksRef,      \* whether audioChunksRef.current holds data
    isPaused,            \* React state
    streamRef,           \* the request whose stream is current; 0 for null
    liveStreams,         \* the requests whose stream has tracks not stopped
    \* detectSilence (audio-processor.ts)
    audioBuffer,         \* the argument: channel 0 and the sample rate
    silenceThreshold,    \* the argument
    minSilenceDuration,  \* the argument, in half seconds
    silenceRanges,       \* the value returned
    \* chunkAudio (audio-processor.ts), processAudioChunks (stt-enhanced.tsx)
    chunkInput,          \* the AudioBuffer handed to chunkAudio
    chunkBuffers,        \* the AudioBuffers chunkAudio returned
    audioBlob,           \* the Blob handed to processAudioChunks
    blobChunks,          \* the Blobs its promise resolved to
    \* the recordings route (app/api/recordings/route.ts)
    blobToken,           \* whether process.env.BLOB_READ_WRITE_TOKEN is set
    blobs,               \* the pathnames stored in Vercel Blob
    recordings,          \* the module's in-memory array
    clock,               \* the server's time, in milliseconds
    saved,               \* pathnames a POST returned, not deleted since
    removed,             \* pathnames a DELETE reported success for, not saved since
    storeResponse,       \* the response of the last request
    \* the end of a pipeline and the render (stt-enhanced.tsx)
    selectedProvider,    \* transcriptionOptions.provider
    transcriptionResults,\* what transcribeAudioChunks resolved to
    transcriptText,      \* React state
    timestampedText,     \* React state
    jsonOutput           \* React state: JSON text, held as the value it denotes

varsSentiment == <<sentimentSegments, overallSentiment>>
varsDeepgram  == <<response, processed>>
varsCombine   == <<results, combined>>
varsChunks    == <<chunks, requests, issued, completions, svcPc, svcOutcome>>
varsOptions   == <<transcriptionOptions>>
varsDispatch  == <<uiChunks, outbound, uiPc, loopIndex, simulated, uiOutcome>>
varsLanguage  == <<text, detected>>

varsGemini    == <<transcriptionText, geminiRuns>>
varsCall      == <<callSite, callInput, providerRequests, providerAnswer, callPc,
                   callResponse>>
varsMic       == <<isPaused, streamRef, liveStreams>>
varsApp       == <<appVersion, isRecording, isProcessing, status, error, resultFields,
                   pipelines, mediaRecorderRef, audioChunksRef, varsMic>>

varsSilence   == <<audioBuffer, silenceThreshold, minSilenceDuration, silenceRanges>>

\* The components added last, for the frames below.
varsSlice     == <<chunkInput, chunkBuffers, audioBlob, blobChunks>>
varsStore     == <<blobToken, blobs, recordings, clock, saved, removed,
                   storeResponse>>
varsPresent   == <<selectedProvider, transcriptionResults, transcriptText,
                   timestampedText, jsonOutput>>
varsLast == <<varsSilence, varsSlice, varsStore, varsPresent>>

vars == <<varsSentiment, varsDeepgram, varsCombine, varsChunks, varsOptions,
          varsDispatch, varsLanguage, varsGemini, varsCall, varsApp, varsLast>>

\* The components after the first seven, for the frames below.
varsLater == <<varsGemini, varsCall, varsApp, varsLast>>

\* What a step of one component leaves alone: the other components.
OnlySentiment == UNCHANGED <<varsDeepgram, varsCombine, varsChunks, varsOptions,
                             varsDispatch, varsLanguage,
                             varsLater>>
OnlyDeepgram  == UNCHANGED <<varsSentiment, varsCombine, varsChunks, varsOptions,
                             varsDispatch, varsLanguage,
                             varsLater>>
OnlyCombine   == UNCHANGED <<varsSentiment, varsDeepgram, varsChunks, varsOptions,
                             varsDispatch, varsLanguage,
                             varsLater>>
OnlyChunks    == UNCHANGED <<varsSentiment, varsDeepgram, varsCombine, varsOptions,
                             varsDispatch, varsLanguage,
                             varsLater>>
OnlyOptions   == UNCHANGED <<varsSentiment, varsDeepgram, varsCombine, varsChunks,
                             varsDispatch, varsLanguage,
                             varsLater>>
OnlyDispatch  == UNCHANGED <<varsSentiment, varsDeepgram, varsCombine, varsChunks,
                             varsLanguage,
                             varsLater>>
OnlyLanguage  == UNCHANGED <<varsSentiment, varsDeepgram, varsCombine, varsChunks,
                             varsOptions, varsDispatch,
                             varsLater>>

\* The first seven components.
varsEarlier == <<varsSentiment, varsDeepgram, varsCombine, varsChunks, varsOptions,
                 varsDispatch, varsLanguage>>

OnlyGemini    == UNCHANGED <<varsEarlier, varsCall, varsApp, varsLast>>
OnlyCall      == UNCHANGED <<varsEarlier, varsGemini, varsApp, varsLast>>
OnlyApp       == UNCHANGED <<varsEarlier, varsGemini, varsCall, varsLast>>

\* The three components before the last ones.
varsMiddle == <<varsGemini, varsCall, varsApp>>

OnlySilence   == UNCHANGED <<varsEarlier, varsMiddle, varsSlice, varsStore, varsPresent>>
OnlySlice     == UNCHANGED <<varsEarlier, varsMiddle, varsSilence, varsStore, varsPresent>>
OnlyStore     == UNCHANGED <<varsEarlier, varsMiddle, varsSilence, varsSlice, varsPresent>>
OnlyPresent   == UNCHANGED <<varsEarlier, varsMiddle, varsSilence, varsSlice, varsStore>>

\* JavaScript's null / undefined, and a value not computed yet.
Null      == [kind |-> "null"]
Undefined == [kind |-> "undefined"]
Pending   == [kind |-> "pending"]

\* All sequences over S of length lo..hi.
SeqsBetween(S, lo, hi) == UNION {[1..n -> S] : n \in lo..hi}

RECURSIVE SumOver(_, _)
\* Sum of f[i] for i in the finite set I.
SumOver(f, I) ==
    IF I = {} THEN 0
    ELSE LET i == CHOOSE j \in I : TRUE IN f[i] + SumOver(f, I \ {i})

(***************************************************************************)
(* calculateOverallSentiment                                               *)
(***************************************************************************)

\* Bound: longest list of sentiment segments.
MaxSentimentSegments == 3

\* seg.sentiment: the three classes, a label outside them, and a missing one.
SentimentLabels == {"positive", "negative", "neutral", "mixed", "missing"}

\* seg.sentiment_score, in units of the score's resolution.
SentimentScores == {-1, 0, 2}

SentimentSegment == [sentiment : SentimentLabels, sentiment_score : SentimentScores]

\* Object.entries(sentimentCounts): the keys in insertion order.
SentimentClasses == <<"positive", "negative", "neutral">>

\* seg.sentiment && sentimentCounts.hasOwnProperty(seg.sentiment)
IsCounted(seg) ==
    /\ seg.sentiment # "missing"
    /\ \E k \in 1..Len(SentimentClasses) : SentimentClasses[k] = seg.sentiment

\* sentimentCounts after the forEach.
SentimentCounts(segs) ==
    [c \in {SentimentClasses[k] : k \in 1..Len(SentimentClasses)} |->
        Cardinality({i \in 1..Len(segs) : IsCounted(segs[i]) /\ segs[i].sentiment = c})]

\* totalConfidence after the forEach: only counted segments add their score.
TotalConfidence(segs) ==
    SumOver([i \in 1..Len(segs) |-> segs[i].sentiment_score],
            {i \in 1..Len(segs) : IsCounted(segs[i])})

\* The reduce callback with ">=": the earlier entry is kept on a tie.
PickEntryKeepFirst(counts, a, b) == IF counts[a] >= counts[b] THEN a ELSE b

\* The reduce callback: (a, b) => counts[a] > counts[b] ? a : b
PickEntry(counts, a, b) == IF counts[a] > counts[b] THEN a ELSE b

RECURSIVE ReduceEntries(_, _, _)
\* entries.reduce(callback) with no initial value: acc starts at entries[0].
ReduceEntries(counts, acc, k) ==
    IF k > Len(SentimentClasses) THEN acc
    ELSE ReduceEntries(counts, PickEntry(counts, acc, SentimentClasses[k]), k + 1)

\* The confidence totalConfidence / segments.length, kept as an exact fraction.
calculateOverallSentiment(segs) ==
    IF Len(segs) = 0 THEN Null
    ELSE LET counts == SentimentCounts(segs) IN
         [kind         |-> "overall",
          sentiment    |-> ReduceEntries(counts, SentimentClasses[1], 2),
          confidence   |-> [num |-> TotalConfidence(segs), den |-> Len(segs)],
          distribution |-> counts]

SentimentInit ==
    /\ sentimentSegments \in SeqsBetween(SentimentSegment, 0, MaxSentimentSegments)
    /\ overallSentiment = Pending

SentimentIdle ==
    /\ sentimentSegments = <<>>
    /\ overallSentiment = Pending

\* One call of calculateOverallSentiment.
CalculateOverallSentiment ==
    /\ overallSentiment = Pending
    /\ overallSentiment' = calculateOverallSentiment(sentimentSegments)
    /\ UNCHANGED sentimentSegments
    /\ OnlySentiment

(***************************************************************************)
(* processDeepgramResponse                                                 *)
(***************************************************************************)

\* Bound: longest word list of an alternative.
MaxWords == 3

\* A JavaScript array.
Arr(items) == [kind |-> "array", items |-> items]

\* word.speaker values; ids of 10 or more have two digits.
SpeakerIds == {0, 2, 10, 11}

\* A word of alternatives.words: word.speaker may be absent (diarization off).
Word == [hasSpeaker : BOOLEAN, speaker : SpeakerIds]
Words == {w \in Word : w.hasSpeaker \/ w.speaker = 0}

\* alternatives[0]: words may be absent, as may paragraphs.
Alternatives ==
    [kind : {"alternative"}, transcript : {"hello"}, confidence : {9},
     words : {Undefined} \cup {Arr(ws) : ws \in SeqsBetween(Words, 0, MaxWords)},
     paragraphs : {Undefined}]
    \cup
    [kind : {"alternative"}, transcript : {"hello"}, confidence : {9},
     words : {Arr(<<>>)},
     paragraphs : {Arr(<<[start |-> 0, end |-> 1, text |-> "hello"]>>)}]

\* results.channels[i]: an object that may carry no alternatives list at all.
Channels ==
    {[kind |-> "channel", alternatives |-> Undefined],
     [kind |-> "channel", alternatives |-> Arr(<<>>)]}
    \cup {[kind |-> "channel", alternatives |-> Arr(<<a>>)] : a \in Alternatives}

\* results.topics.topics, results.sentiment.segments, results.metadata
ProviderTopics ==
    {Undefined, Arr(<<[topic |-> "health", confidence_score |-> 7]>>),
     Arr(<<[topic |-> "health", confidence_score |-> 7],
           [topic |-> "travel", confidence_score |-> 5]>>),
     Arr(<<[topic |-> "health", confidence_score |-> 7],
           [topic |-> "health", confidence_score |-> 5]>>)}
ProviderSentiment ==
    {Undefined, Arr(<<[sentiment |-> "positive", sentiment_score |-> 2]>>)}
ProviderLanguage == {Undefined, [kind |-> "string", value |-> "es"]}

\* Deepgram's JSON body: results may be missing, and so may results.channels.
Responses ==
    {[results |-> Undefined]}
    \cup {[results |-> [kind |-> "results", channels |-> Undefined,
                        topics |-> Undefined, sentiment |-> Undefined,
                        detected_language |-> Undefined]]}
    \cup {[results |-> [kind |-> "results", channels |-> Arr(<<>>),
                        topics |-> Undefined, sentiment |-> Undefined,
                        detected_language |-> Undefined]]}
    \cup {[results |-> [kind |-> "results", channels |-> Arr(<<c>>),
                        topics |-> Undefined, sentiment |-> Undefined,
                        detected_language |-> Undefined]] : c \in Channels}
    \cup {[results |-> [kind |-> "results",
                        channels |-> Arr(<<[kind |-> "channel",
                            alternatives |-> Arr(<<[kind |-> "alternative",
                                transcript |-> "hello", confidence |-> 9,
                                words |-> Arr(<<>>), paragraphs |-> Undefined]>>)]>>),
                        topics |-> t, sentiment |-> s, detected_language |-> l]] :
            t \in ProviderTopics, s \in ProviderSentiment, l \in ProviderLanguage}

RECURSIVE NumberToString(_)
\* Number.prototype.toString of a non-negative integer, as its decimal digits.
NumberToString(n) == IF n < 10 THEN <<n>> ELSE NumberToString(n \div 10) \o <<n % 10>>

RECURSIVE StringLess(_, _)
\* s < t for strings of digits: by code unit, a proper prefix first.
StringLess(s, t) ==
    IF t = <<>> THEN FALSE
    ELSE IF s = <<>> THEN TRUE
    ELSE IF Head(s) # Head(t) THEN Head(s) < Head(t)
    ELSE StringLess(Tail(s), Tail(t))

\* sort() with no comparator: the elements compare as their strings.
DefaultCompareLess(a, b) == StringLess(NumberToString(a), NumberToString(b))

RECURSIVE InsertSorted(_, _)
\* x put into the sorted sequence s after every element not greater than it.
InsertSorted(s, x) ==
    IF s = <<>> THEN <<x>>
    ELSE IF DefaultCompareLess(x, Head(s)) THEN <<x>> \o s
    ELSE <<Head(s)>> \o InsertSorted(Tail(s), x)

RECURSIVE SortDefault(_)
\* Array.prototype.sort() (stable).
SortDefault(s) ==
    IF s = <<>> THEN <<>>
    ELSE InsertSorted(SortDefault(SubSeq(s, 1, Len(s) - 1)), s[Len(s)])

RECURSIVE SpeakerSet(_)
\* Array.from(speakers): the Set's values in insertion order, each once.
SpeakerSet(ws) ==
    IF ws = <<>> THEN <<>>
    ELSE LET before == SpeakerSet(SubSeq(ws, 1, Len(ws) - 1))
             w      == ws[Len(ws)]
         IN IF w.hasSpeaker /\ \A i \in 1..Len(before) : before[i] # w.speaker
            THEN Append(before, w.speaker)
            ELSE before

\* The early returns: every field at its default; no paragraphs key is set.
EmptyResult(resp) ==
    [kind |-> "result", text |-> "", speakers |-> Arr(<<>>), topics |-> Arr(<<>>),
     sentiment |-> Null, language |-> Null, confidence |-> 0,
     segments |-> Arr(<<>>), paragraphs |-> Undefined, raw |-> resp]

\* The items of an optional array: x?.map(...) || [] maps over these.
ItemsOrNone(arr) == IF arr = Undefined THEN <<>> ELSE arr.items

\* The value processDeepgramResponse returns, or the TypeError it throws.
processDeepgramResponse(resp) ==
    LET res == resp.results IN
    IF res = Undefined THEN EmptyResult(resp)
    ELSE IF res.channels = Undefined THEN EmptyResult(resp)
    ELSE IF Len(res.channels.items) = 0 THEN EmptyResult(resp)
    ELSE LET channel == res.channels.items[1] IN
    \* channel.alternatives[0] reads index 0 of undefined
    IF channel.alternatives = Undefined THEN [kind |-> "throw", error |-> "TypeError"]
    ELSE IF Len(channel.alternatives.items) = 0 THEN EmptyResult(resp)
    ELSE LET alt == channel.alternatives.items[1]
             ws  == IF alt.words = Undefined THEN <<>> ELSE alt.words.items
             Seg(i) == [id |-> i - 1, text |-> "word", hasSpeaker |-> ws[i].hasSpeaker,
                        speaker |-> ws[i].speaker]
             Par(p) == p
             Top(t) == [topic |-> t.topic, confidence |-> t.confidence_score]
             Sen(g) == [sentiment |-> g.sentiment, confidence |-> g.sentiment_score]
         IN
         [kind       |-> "result",
          text       |-> alt.transcript,
          confidence |-> alt.confidence,
          language   |-> IF res.detected_language = Undefined THEN Null
                         ELSE res.detected_language,
          speakers   |-> Arr(SortDefault(SpeakerSet(ws))),
          segments   |-> Arr([i \in 1..Len(ws) |-> Seg(i)]),
          paragraphs |-> Arr([i \in 1..Len(ItemsOrNone(alt.paragraphs)) |->
                                  Par(ItemsOrNone(alt.paragraphs)[i])]),
          topics     |-> Arr([i \in 1..Len(ItemsOrNone(res.topics)) |->
                                  Top(ItemsOrNone(res.topics)[i])]),
          sentiment  |-> IF res.sentiment = Undefined THEN Null
                         ELSE IF Len(res.sentiment.items) = 0 THEN Null
                         ELSE [kind     |-> "sentiment",
                               overall  |-> calculateOverallSentiment(res.sentiment.items),
                               segments |-> Arr([i \in 1..Len(res.sentiment.items) |->
                                                    Sen(res.sentiment.items[i])])],
          raw        |-> resp]

DeepgramInit ==
    /\ response \in Responses
    /\ processed = Pending

DeepgramIdle ==
    /\ response = [results |-> Undefined]
    /\ processed = Pending

\* One call of processDeepgramResponse.
ProcessDeepgramResponse ==
    /\ processed = Pending
    /\ processed' = processDeepgramResponse(response)
    /\ UNCHANGED response
    /\ OnlyDeepgram

(***************************************************************************)
(* combineTranscriptionResults (transcription-service.ts)                  *)
(***************************************************************************)

\* Bound: most chunk results combined at once.
MaxResults == 3

\* Bound: most segments of one chunk result.
MaxSegments == 2

\* Chunk-local segments {start, end}: a chunk may list the later one first, and
\* its final segment need not be the one that ends last.
SegmentValues == {[start |-> 0, end |-> 2], [start |-> 1, end |-> 3]}

\* A TranscriptionResult: segments is optional.
ChunkResults ==
    [text : {"hi"},
     segments : {Undefined} \cup {Arr(ss) : ss \in SeqsBetween(SegmentValues, 0, MaxSegments)},
     language : {"en"}]

RECURSIVE Join(_, _)
\* Array.prototype.join: the strings of ts with sep between neighbours.
Join(ts, sep) ==
    IF ts = <<>> THEN ""
    ELSE IF Len(ts) = 1 THEN ts[1]
    ELSE ts[1] \o sep \o Join(Tail(ts), sep)

RECURSIVE InsertByStart(_, _)
\* x put into the sorted sequence s after every element that does not start later.
InsertByStart(s, x) ==
    IF s = <<>> THEN <<x>>
    ELSE IF x.start - Head(s).start < 0 THEN <<x>> \o s
    ELSE <<Head(s)>> \o InsertByStart(Tail(s), x)

\* The segments left in the order of the chunks, unsorted.
KeepChunkOrder(s) == s

RECURSIVE SortByStart(_)
\* allSegments.sort((a, b) => a.start - b.start) (stable).
SortByStart(s) ==
    IF s = <<>> THEN <<>>
    ELSE InsertByStart(SortByStart(SubSeq(s, 1, Len(s) - 1)), s[Len(s)])

\* The segments of result r, none when r.segments is absent.
SegmentsOf(r) == IF r.segments = Undefined THEN <<>> ELSE r.segments.items

\* The update with "=" for "+=": the offset is the chunk-local end.
NextLastEndTimeAssigned(lastEndTime, r) ==
    IF Len(SegmentsOf(r)) > 0
    THEN SegmentsOf(r)[Len(SegmentsOf(r))].end
    ELSE lastEndTime

\* lastEndTime after result r: lastEndTime += lastSegment.end (original end).
NextLastEndTime(lastEndTime, r) ==
    IF Len(SegmentsOf(r)) > 0
    THEN lastEndTime + SegmentsOf(r)[Len(SegmentsOf(r))].end
    ELSE lastEndTime

\* adjustedSegments of the result at position index (0-based).
AdjustedSegments(r, index, lastEndTime) ==
    [j \in 1..Len(SegmentsOf(r)) |->
        IF index = 0 THEN SegmentsOf(r)[j]
        ELSE [SegmentsOf(r)[j] EXCEPT !.start = @ + lastEndTime,
                                      !.end   = @ + lastEndTime]]

RECURSIVE CombineLoop(_, _, _, _)
\* results.forEach: allSegments after the results from position k on.
CombineLoop(rs, k, allSegments, lastEndTime) ==
    IF k > Len(rs) THEN allSegments
    ELSE CombineLoop(rs, k + 1,
                     allSegments \o AdjustedSegments(rs[k], k - 1, lastEndTime),
                     NextLastEndTime(lastEndTime, rs[k]))

combineTranscriptionResults(rs) ==
    IF Len(rs) = 0 THEN [text |-> "", segments |-> Undefined, language |-> "undefined"]
    ELSE IF Len(rs) = 1 THEN rs[1]
    ELSE [text     |-> Join([i \in 1..Len(rs) |-> rs[i].text], " "),
          segments |-> Arr(SortByStart(CombineLoop(rs, 1, <<>>, 0))),
          language |-> rs[1].language]

CombineInit ==
    /\ results \in SeqsBetween(ChunkResults, 0, MaxResults)
    /\ combined = Pending

CombineIdle ==
    /\ results = <<>>
    /\ combined = Pending

\* One call of combineTranscriptionResults.
CombineTranscriptionResults ==
    /\ combined = Pending
    /\ combined' = combineTranscriptionResults(results)
    /\ UNCHANGED results
    /\ OnlyCombine

(***************************************************************************)
(* transcribeAudio / transcribeAudioChunks (transcription-service.ts)      *)
(***************************************************************************)

\* Bound: most audio chunks of one call.
MaxChunks == 3

\* Response bodies of a 2xx answer (verbose_json) ...
ResponseBodies ==
    {[text |-> "uno", segments |-> Arr(<<[start |-> 0, end |-> 2]>>), language |-> "es"],
     [text |-> "dos tres", segments |-> Undefined, language |-> "es"]}

\* ... and what makes transcribeAudio throw: fetch rejecting, or a non-2xx answer.
FailureReasons == {"network", "http"}

NotIssued == [state |-> "none"]
InFlight  == [state |-> "inflight"]

\* The promises of transcribeAudio(chunk) that are fulfilled / rejected.
Fulfilled(reqs) == {i \in DOMAIN reqs : reqs[i].state = "ok"}
Rejected(reqs)  == {i \in DOMAIN reqs : reqs[i].state = "failed"}

\* The array Promise.all resolves to, filled in arrival order.
ResultsByArrival(reqs, arrival) ==
    [k \in 1..Len(arrival) |-> reqs[arrival[k]].body]

\* The array Promise.all resolves to: the values in the order of the promises.
ResultsInOrder(reqs, arrival) ==
    [i \in 1..Len(reqs) |-> reqs[i].body]

\* A settle-all that salvages: waits for every promise, keeps the fulfilled ones.
SettleSalvaging(reqs, arrival, first) ==
    IF Fulfilled(reqs) \cup Rejected(reqs) # DOMAIN reqs THEN Pending
    ELSE [kind |-> "resolved",
          value |-> combineTranscriptionResults(
                        [k \in 1..Cardinality(Fulfilled(reqs)) |->
                            reqs[CHOOSE i \in Fulfilled(reqs) :
                                    Cardinality({j \in Fulfilled(reqs) : j < i}) = k - 1].body])]

\* await Promise.all(transcriptionPromises), then combine: rejected with the
\* first rejection (first = the chunk whose promise rejected first, 0 if none),
\* resolved once every promise is fulfilled, pending otherwise.
AwaitAllAndCombine(reqs, arrival, first) ==
    IF first # 0
    THEN [kind |-> "rejected",
          error |-> "Transcription failed: " \o reqs[first].reason, chunk |-> first]
    ELSE IF Fulfilled(reqs) = DOMAIN reqs
    THEN [kind |-> "resolved",
          value |-> combineTranscriptionResults(ResultsInOrder(reqs, arrival))]
    ELSE Pending

\* chunks.length === 1: the promise of transcribeAudio(chunks[0]) itself.
SingleChunkOutcome(reqs) ==
    IF reqs[1].state = "ok" THEN [kind |-> "resolved", value |-> reqs[1].body]
    ELSE IF reqs[1].state = "failed"
    THEN [kind |-> "rejected",
          error |-> "Transcription failed: " \o reqs[1].reason, chunk |-> 1]
    ELSE Pending

\* The chunk whose rejection settled the call (0: none yet).
FirstRejection(reqs, arrival) ==
    IF \E k \in 1..Len(arrival) : reqs[arrival[k]].state = "failed"
    THEN arrival[CHOOSE k \in 1..Len(arrival) :
                    /\ reqs[arrival[k]].state = "failed"
                    /\ \A m \in 1..(k - 1) : reqs[arrival[m]].state # "failed"]
    ELSE 0

\* The promise transcribeAudioChunks returned, given the promises of its fetches.
ChunksOutcome(reqs, arrival) ==
    IF Len(reqs) = 1 THEN SingleChunkOutcome(reqs)
    ELSE AwaitAllAndCombine(reqs, arrival, FirstRejection(reqs, arrival))

ChunksInit ==
    /\ chunks \in {[i \in 1..n |-> i] : n \in 0..MaxChunks}
    /\ requests = [i \in 1..Len(chunks) |-> NotIssued]
    /\ issued = [i \in 1..Len(chunks) |-> 0]
    /\ completions = <<>>
    /\ svcPc = "idle"
    /\ svcOutcome = Pending

ChunksIdle ==
    /\ chunks = <<>>
    /\ requests = <<>>
    /\ issued = <<>>
    /\ completions = <<>>
    /\ svcPc = "idle"
    /\ svcOutcome = Pending

\* transcribeAudioChunks up to its await: no chunks throws; otherwise every
\* transcribeAudio(chunk) runs up to its own await of fetch, so every request is
\* issued before the caller awaits anything.
TranscribeAudioChunks ==
    /\ svcPc = "idle"
    /\ IF Len(chunks) = 0
       THEN /\ svcPc' = "settled"
            /\ svcOutcome' = [kind |-> "rejected",
                              error |-> "No audio chunks to transcribe", chunk |-> 0]
            /\ UNCHANGED <<requests, issued>>
       ELSE /\ svcPc' = "awaiting"
            /\ requests' = [i \in 1..Len(chunks) |-> InFlight]
            /\ issued' = [i \in 1..Len(chunks) |-> issued[i] + 1]
            /\ UNCHANGED svcOutcome
    /\ UNCHANGED <<chunks, completions>>
    /\ OnlyChunks

\* The promise of fetch i settles to next; the caller continues if it can.
SettleRequest(i, next) ==
    /\ requests[i].state = "inflight"
    /\ requests' = [requests EXCEPT ![i] = next]
    /\ completions' = Append(completions, i)
    /\ svcOutcome' = ChunksOutcome(requests', completions')
    /\ svcPc' = IF svcOutcome' = Pending THEN "awaiting" ELSE "settled"
    /\ UNCHANGED <<chunks, issued>>
    /\ OnlyChunks

\* A 2xx answer for chunk i: transcribeAudio returns its JSON body.
RequestSucceeds ==
    \E i \in 1..Len(chunks), body \in ResponseBodies :
        SettleRequest(i, [state |-> "ok", body |-> body])

\* fetch rejects or the answer is not 2xx: transcribeAudio throws; nothing retries.
RequestFails ==
    \E i \in 1..Len(chunks), reason \in FailureReasons :
        SettleRequest(i, [state |-> "failed", reason |-> reason])

(***************************************************************************)
(* TranscriptionOptions: the React state and the options component         *)
(***************************************************************************)

\* useState's initial value in SpeechToTextApp.
InitialOptions ==
    [provider          |-> "gemini",
     model             |-> "gemini-2.0-flash-exp",
     language          |-> "en",
     diarize           |-> TRUE,
     sentiment         |-> TRUE,
     topics            |-> TRUE,
     detectLanguage    |-> TRUE,
     customTopicMode   |-> "extended",
     customTopics      |-> <<"medicine", "doctor", "patient">>,
     includeTimestamps |-> TRUE,
     speakerLabels     |-> TRUE,
     punctuation       |-> TRUE]

\* The SelectItem values of the provider Select.
ProviderItems == {"openai", "gemini", "deepgram"}

\* The switch of handleProviderChange; "" when no case matches.
ProviderModel(newProvider) ==
    CASE newProvider = "openai"   -> "whisper-1"
      [] newProvider = "gemini"   -> "gemini-2.5-flash-preview-04-17"
      [] newProvider = "deepgram" -> "nova-3"
      [] OTHER                    -> ""

\* The options handleProviderChange hands to onChange.
handleProviderChange(options, newProvider) ==
    IF ProviderModel(newProvider) = ""
    THEN [options EXCEPT !.provider = newProvider]
    ELSE [options EXCEPT !.provider = newProvider, !.model = ProviderModel(newProvider)]

\* The options updateOption hands to onChange: { ...options, [key]: value }.
updateOption(options, key, value) == [options EXCEPT ![key] = value]

\* Two of the SelectItem values of the language Select.
LanguageItems == {"en", "es"}

\* The keys the rendered controls update, with the values they can give: the
\* AI feature switches are rendered for deepgram, the topic mode for deepgram
\* with topics on, the Gemini switches for gemini.
OptionUpdates(options) ==
    ({"language"} \X LanguageItems)
    \cup (IF options.provider = "deepgram"
          THEN {"diarize", "sentiment", "topics", "detectLanguage"} \X BOOLEAN
          ELSE {})
    \cup (IF options.provider = "deepgram" /\ options.topics
          THEN {"customTopicMode"} \X {"strict", "extended", "default"}
          ELSE {})
    \cup (IF options.provider = "gemini"
          THEN {"includeTimestamps", "speakerLabels", "punctuation"} \X BOOLEAN
          ELSE {})

\* Whether the custom topic controls are rendered.
TopicControlsShown(options) == options.provider = "deepgram" /\ options.topics

\* The text typed into the new-topic input.
NewTopics == {"law", " doctor"}

\* newTopic.trim()
Trim(topic) == IF topic = " doctor" THEN "doctor" ELSE topic

Includes(seq, x) == \E i \in 1..Len(seq) : seq[i] = x

\* customTopics.filter((t) => t !== topic)
RECURSIVE Without(_, _)
Without(seq, x) ==
    IF seq = <<>> THEN <<>>
    ELSE IF Head(seq) = x THEN Without(Tail(seq), x)
    ELSE <<Head(seq)>> \o Without(Tail(seq), x)

OptionsInit == transcriptionOptions = InitialOptions

OptionsIdle == transcriptionOptions = InitialOptions

\* The user picks a provider: onChange is setTranscriptionOptions.
HandleProviderChange ==
    /\ \E p \in ProviderItems :
          transcriptionOptions' = handleProviderChange(transcriptionOptions, p)
    /\ OnlyOptions

\* A language, toggle or topic-mode control changes.
UpdateOption ==
    /\ \E u \in OptionUpdates(transcriptionOptions) :
          transcriptionOptions' = updateOption(transcriptionOptions, u[1], u[2])
    /\ OnlyOptions

\* addCustomTopic: a trimmed, non-empty topic not yet in the list is appended.
AddCustomTopic ==
    /\ TopicControlsShown(transcriptionOptions)
    /\ \E t \in NewTopics :
          /\ ~Includes(transcriptionOptions.customTopics, Trim(t))
          /\ transcriptionOptions' =
                updateOption(transcriptionOptions, "customTopics",
                             Append(transcriptionOptions.customTopics, Trim(t)))
    /\ OnlyOptions

\* removeCustomTopic: the badge's X of a listed topic.
RemoveCustomTopic ==
    /\ TopicControlsShown(transcriptionOptions)
    /\ \E i \in 1..Len(transcriptionOptions.customTopics) :
          transcriptionOptions' =
              updateOption(transcriptionOptions, "customTopics",
                           Without(transcriptionOptions.customTopics,
                                   transcriptionOptions.customTopics[i]))
    /\ OnlyOptions

(***************************************************************************)
(* transcribeAudioChunks: the provider dispatcher of the UI               *)
(***************************************************************************)

\* Bound: most chunks handed to the dispatcher.
MaxUiChunks == 3

\* The audio blobs a chunk can be.
Blobs == {"blobA", "blobB"}

\* What a route answers to a request that did not get a 2xx: errorData.error.
RouteErrors == {"Deepgram API key not configured", ""}

DigitChars == <<"0", "1", "2", "3", "4", "5", "6", "7", "8", "9">>

RECURSIVE NumStr(_)
\* String(n) for a non-negative integer.
NumStr(n) ==
    IF n < 10 THEN DigitChars[n + 1]
    ELSE NumStr(n \div 10) \o DigitChars[(n % 10) + 1]

\* n.toFixed(2) for a non-negative integer.
ToFixed2(n) == NumStr(n) \o ".00"

RECURSIVE Concat(_)
\* The sequences of ss, one after the other.
Concat(ss) == IF ss = <<>> THEN <<>> ELSE Head(ss) \o Concat(Tail(ss))

\* The UI's combineTranscriptionResults on an array of chunk results: the
\* segments are concatenated as they are and sorted by start.
UiCombineArray(rs) ==
    LET txt == Join([i \in 1..Len(rs) |-> rs[i].text], " ")
        allSegments == SortByStart(Concat([i \in 1..Len(rs) |-> SegmentsOf(rs[i])]))
        Line(g) == "[" \o ToFixed2(g.start) \o "s - " \o ToFixed2(g.end) \o "s] " \o g.text
    IN [kind        |-> "combined",
        text        |-> txt,
        timestamped |-> Join([i \in 1..Len(allSegments) |-> Line(allSegments[i])], "\n"),
        json        |-> [text |-> txt, segments |-> Arr(allSegments)]]

\* The result transcribeWithOpenAI pushes for loop index i (0-based).
SimulatedResult(i) ==
    [text     |-> "This is the transcription for chunk " \o NumStr(i + 1) \o ".",
     segments |-> Arr(<<[id    |-> i * 10 + 1,
                         start |-> i * 100,
                         end   |-> i * 100 + 30,
                         text  |-> "This is segment 1 of chunk " \o NumStr(i + 1) \o "."]>>)]

\* The fetch of transcribeWithDeepgram / transcribeWithGemini.
RouteRequest(provider, blob) ==
    [url |-> "/api/transcribe/" \o provider, file |-> blob]

\* A dispatcher without the gemini branch: gemini falls through to openai.
BackendWithoutGemini(options) ==
    IF options.provider = "deepgram" THEN "deepgram" ELSE "openai"

\* The branch of the dispatcher: any provider but deepgram and gemini is openai.
Backend(options) ==
    IF options.provider = "deepgram" THEN "deepgram"
    ELSE IF options.provider = "gemini" THEN "gemini"
    ELSE "openai"

DispatchInit ==
    /\ transcriptionOptions \in
          {InitialOptions} \cup {handleProviderChange(InitialOptions, p) : p \in ProviderItems}
    /\ uiChunks \in SeqsBetween(Blobs, 1, MaxUiChunks)
    /\ outbound = <<>>
    /\ uiPc = "idle"
    /\ loopIndex = 0
    /\ simulated = <<>>
    /\ uiOutcome = Pending

DispatchIdle ==
    /\ uiChunks = <<>>
    /\ outbound = <<>>
    /\ uiPc = "idle"
    /\ loopIndex = 0
    /\ simulated = <<>>
    /\ uiOutcome = Pending

\* transcribeAudioChunks(chunks) up to the first await of the branch it takes.
Dispatch ==
    /\ uiPc = "idle"
    /\ IF Backend(transcriptionOptions) = "openai"
       THEN /\ uiPc' = "openaiLoop"
            /\ UNCHANGED outbound
       ELSE /\ uiPc' = "awaitRoute"
            /\ outbound' = Append(outbound,
                                  RouteRequest(Backend(transcriptionOptions), uiChunks[1]))
    /\ UNCHANGED <<transcriptionOptions, uiChunks, loopIndex, simulated, uiOutcome>>
    /\ OnlyDispatch

\* The route answers 2xx: the dispatcher returns response.json().
RouteAnswersOk ==
    /\ uiPc = "awaitRoute"
    /\ uiPc' = "settled"
    /\ uiOutcome' = [kind |-> "resolved",
                     value |-> [kind |-> "canonical",
                                provider |-> Backend(transcriptionOptions)]]
    /\ UNCHANGED <<transcriptionOptions, uiChunks, outbound, loopIndex, simulated>>
    /\ OnlyDispatch

\* The route answers non-2xx: throw new Error(errorData.error || fallback).
RouteAnswersError ==
    /\ uiPc = "awaitRoute"
    /\ \E e \in RouteErrors :
          uiOutcome' = [kind |-> "rejected",
                        error |-> IF e # "" THEN e
                                  ELSE IF Backend(transcriptionOptions) = "deepgram"
                                  THEN "Transcription failed"
                                  ELSE "Gemini transcription failed"]
    /\ uiPc' = "settled"
    /\ UNCHANGED <<transcriptionOptions, uiChunks, outbound, loopIndex, simulated>>
    /\ OnlyDispatch

\* fetch itself rejects: the rejection is the dispatcher's.
RouteUnreachable ==
    /\ uiPc = "awaitRoute"
    /\ uiPc' = "settled"
    /\ uiOutcome' = [kind |-> "rejected", error |-> "Failed to fetch"]
    /\ UNCHANGED <<transcriptionOptions, uiChunks, outbound, loopIndex, simulated>>
    /\ OnlyDispatch

\* One iteration of transcribeWithOpenAI's loop: the one-second timer fires and
\* a made-up result is pushed; after the last one the results are combined.
\* No request leaves the browser.
OpenAITimerFires ==
    /\ uiPc = "openaiLoop"
    /\ loopIndex < Len(uiChunks)
    /\ simulated' = Append(simulated, SimulatedResult(loopIndex))
    /\ loopIndex' = loopIndex + 1
    /\ IF loopIndex' = Len(uiChunks)
       THEN /\ uiPc' = "settled"
            /\ uiOutcome' = [kind |-> "resolved", value |-> UiCombineArray(simulated')]
       ELSE UNCHANGED <<uiPc, uiOutcome>>
    /\ UNCHANGED <<transcriptionOptions, uiChunks, outbound>>
    /\ OnlyDispatch

(***************************************************************************)
(* detectLanguage                                                          *)
(***************************************************************************)

\* Bound: most words of a text.
MaxTextWords == 3

englishWords ==
    {"the", "and", "is", "in", "to", "of", "a", "that", "it", "with", "for", "as",
     "was", "on", "are"}
spanishWords ==
    {"el", "la", "de", "que", "y", "en", "un", "es", "se", "no", "te", "lo", "le",
     "da", "su"}
frenchWords ==
    {"le", "de", "et", "à", "un", "il", "être", "en", "avoir", "que", "pour", "dans",
     "ce", "son"}

\* The words a text is made of here: of one vocabulary, of two, of none, with
\* capitals, and the empty word split() gives for leading whitespace.
TextWords == {"the", "The", "el", "Et", "et", "de", "le", "zebra", ""}

\* toLowerCase() of a word of TextWords.
ToLowerCase(w) ==
    CASE w = "The" -> "the"
      [] w = "Et"  -> "et"
      [] OTHER     -> w

\* The forEach's count for one vocabulary.
VocabularyCount(words, vocabulary) ==
    Cardinality({i \in 1..Len(words) : words[i] \in vocabulary})

\* The Spanish test with ">=" for ">".
SpanishWinsOrTies(englishCount, spanishCount, frenchCount) ==
    spanishCount >= englishCount /\ spanishCount >= frenchCount

\* spanishCount > englishCount && spanishCount > frenchCount
SpanishWins(englishCount, spanishCount, frenchCount) ==
    spanishCount > englishCount /\ spanishCount > frenchCount

\* detectLanguage on text.toLowerCase().split(/\s+/)
detectLanguage(rawWords) ==
    LET words == [i \in 1..Len(rawWords) |-> ToLowerCase(rawWords[i])]
        englishCount == VocabularyCount(words, englishWords)
        spanishCount == VocabularyCount(words, spanishWords)
        frenchCount  == VocabularyCount(words, frenchWords)
    IN IF englishCount > spanishCount /\ englishCount > frenchCount THEN "en"
       ELSE IF SpanishWins(englishCount, spanishCount, frenchCount) THEN "es"
       ELSE IF frenchCount > englishCount /\ frenchCount > spanishCount THEN "fr"
       ELSE "en"

LanguageInit ==
    /\ text \in SeqsBetween(TextWords, 1, MaxTextWords)
    /\ detected = "pending"

LanguageIdle ==
    /\ text = <<"">>
    /\ detected = "pending"

\* One call of detectLanguage.
DetectLanguage ==
    /\ detected = "pending"
    /\ detected' = detectLanguage(text)
    /\ UNCHANGED text
    /\ OnlyLanguage

(***************************************************************************)
(* processGeminiResponse, extractTopics, analyzeSentiment (Gemini route)   *)
(*                                                                         *)
(* The text is a sequence of lines and a line a sequence of tokens: a      *)
(* token is a maximal run of letters, a run of digits, one whitespace      *)
(* character or one punctuation character, so that the regular             *)
(* expressions of the route are decided token by token.                    *)
(***************************************************************************)

\* Bound: most lines of a text.
MaxLines == 2

\* Token classes: [A-Z][a-z]+, [a-z]+, [A-Z], \d+, \s and the rest.
CapWords     == {"Speaker", "Person", "Alice", "The", "Quick", "Brown", "Fox", "If"}
LowerWords   == {"good", "sad", "dislike"}
UpperLetters == {"A"}
Digits       == {"0", "1", "01"}
Whitespace   == {" ", "\n"}

\* The lines a text is made of here.  Word tokens are never adjacent, as in
\* any tokenised text.
GeminiLines ==
    {<<"Speaker", " ", "1", ":", " ", "Fox">>,
     <<"Person", " ", "A", ":", "sad">>,
     <<"Alice", ":", " ", "Fox">>,
     <<"Alice", " ", "1", ":", " ", "good">>,
     <<"The", " ", "Quick", " ", "Brown", " ", "Fox">>,
     <<"Fox", ",", " ", "Fox", ",", " ", "If", ",", " ", "Fox", ".">>,
     <<" ">>,
     <<"dislike">>,
     <<"Speaker", " ", "1", ":", " ">>,
     <<"[", "0", ":", "01", "]", " ", "Quick">>}

\* Math.random() * 0.3, in hundredths: a value of [0, 0.3).
RandomDraws == {0, 29}

RECURSIVE ConcatTokens(_)
\* The string a token sequence spells.
ConcatTokens(ts) ==
    IF ts = <<>> THEN "" ELSE Head(ts) \o ConcatTokens(Tail(ts))

RECURSIVE TextLength(_)
\* The number of characters of a token sequence.
TextLength(ts) ==
    IF ts = <<>> THEN 0 ELSE Len(Head(ts)) + TextLength(Tail(ts))

RECURSIVE Flatten(_)
\* The tokens of the whole text: the lines with "\n" between them.
Flatten(lines) ==
    IF lines = <<>> THEN <<>>
    ELSE IF Len(lines) = 1 THEN lines[1]
    ELSE lines[1] \o <<"\n">> \o Flatten(Tail(lines))

RECURSIVE TrimStart(_)
\* trimStart(): drop the leading whitespace tokens.
TrimStart(ts) ==
    IF ts # <<>> /\ Head(ts) \in Whitespace THEN TrimStart(Tail(ts)) ELSE ts

RECURSIVE TrimEnd(_)
\* trimEnd(): drop the trailing whitespace tokens.
TrimEnd(ts) ==
    IF ts # <<>> /\ ts[Len(ts)] \in Whitespace
    THEN TrimEnd(SubSeq(ts, 1, Len(ts) - 1)) ELSE ts

\* String.prototype.trim()
TrimTokens(ts) == TrimEnd(TrimStart(ts))

\* split("\n").filter((line) => line.trim())
NonBlankLines(lines) == SelectSeq(lines, LAMBDA l : TrimTokens(l) # <<>>)

\* line.match(/^(Speaker \d+|Person [A-Z]|[A-Z][a-z]+ \d*):(.+)/): the two groups,
\* or Null.  (.+) needs at least one character after the colon.
SpeakerMatch(line) ==
    IF /\ Len(line) >= 5 /\ line[1] = "Speaker" /\ line[2] = " "
       /\ line[3] \in Digits /\ line[4] = ":"
    THEN [kind |-> "match", label |-> SubSeq(line, 1, 3), rest |-> SubSeq(line, 5, Len(line))]
    ELSE IF /\ Len(line) >= 5 /\ line[1] = "Person" /\ line[2] = " "
            /\ line[3] \in UpperLetters /\ line[4] = ":"
    THEN [kind |-> "match", label |-> SubSeq(line, 1, 3), rest |-> SubSeq(line, 5, Len(line))]
    ELSE IF /\ Len(line) >= 5 /\ line[1] \in CapWords /\ line[2] = " "
            /\ line[3] \in Digits /\ line[4] = ":"
    THEN [kind |-> "match", label |-> SubSeq(line, 1, 3), rest |-> SubSeq(line, 5, Len(line))]
    ELSE IF /\ Len(line) >= 4 /\ line[1] \in CapWords /\ line[2] = " " /\ line[3] = ":"
    THEN [kind |-> "match", label |-> SubSeq(line, 1, 2), rest |-> SubSeq(line, 4, Len(line))]
    ELSE Null

\* The segment the forEach pushes for lines[index].
GeminiSegment(line, index) ==
    LET speakerMatch == SpeakerMatch(line) IN
    IF speakerMatch # Null
    THEN [id |-> index, hasSpeaker |-> TRUE,
          speaker |-> ConcatTokens(TrimTokens(speakerMatch.label)),
          text |-> ConcatTokens(TrimTokens(speakerMatch.rest))]
    ELSE [id |-> index, hasSpeaker |-> FALSE, speaker |-> "",
          text |-> ConcatTokens(TrimTokens(line))]

RECURSIVE AddedInOrder(_, _)
\* A Set filled by add() in the order of segs, read back by Array.from.
AddedInOrder(segs, seen) ==
    IF segs = <<>> THEN seen
    ELSE LET s == Head(segs) IN
         AddedInOrder(Tail(segs),
             IF s.hasSpeaker /\ \A i \in 1..Len(seen) : seen[i] # s.speaker
             THEN Append(seen, s.speaker) ELSE seen)

RECURSIVE TimestampMatches(_, _)
\* The exec() loop of /\[(\d+:\d+(?:\.\d+)?)\]/g from token i of f.
TimestampMatches(f, i) ==
    IF i > Len(f) THEN <<>>
    ELSE LET plain == /\ i + 4 <= Len(f) /\ f[i] = "[" /\ f[i + 1] \in Digits
                      /\ f[i + 2] = ":" /\ f[i + 3] \in Digits /\ f[i + 4] = "]"
             fraction == /\ i + 6 <= Len(f) /\ f[i] = "[" /\ f[i + 1] \in Digits
                         /\ f[i + 2] = ":" /\ f[i + 3] \in Digits /\ f[i + 4] = "."
                         /\ f[i + 5] \in Digits /\ f[i + 6] = "]"
         IN IF plain
            THEN <<[time |-> ConcatTokens(SubSeq(f, i + 1, i + 3)),
                    position |-> TextLength(SubSeq(f, 1, i - 1))]>>
                 \o TimestampMatches(f, i + 5)
            ELSE IF fraction
            THEN <<[time |-> ConcatTokens(SubSeq(f, i + 1, i + 5)),
                    position |-> TextLength(SubSeq(f, 1, i - 1))]>>
                 \o TimestampMatches(f, i + 7)
            ELSE TimestampMatches(f, i + 1)

RECURSIVE SkipWhitespace(_, _)
\* The first index from j on that holds no whitespace token.
SkipWhitespace(f, j) ==
    IF j <= Len(f) /\ f[j] \in Whitespace THEN SkipWhitespace(f, j + 1) ELSE j

RECURSIVE PhraseEnd(_, _)
\* (?:\s+[A-Z][a-z]+)* is greedy: the last token of the phrase begun at i.
PhraseEnd(f, i) ==
    LET j == SkipWhitespace(f, i + 1) IN
    IF j > i + 1 /\ j <= Len(f) /\ f[j] \in CapWords THEN PhraseEnd(f, j) ELSE i

RECURSIVE TopicMatches(_, _)
\* text.match(/\b[A-Z][a-z]+(?:\s+[A-Z][a-z]+)*\b/g) || [], from token i of f.
TopicMatches(f, i) ==
    IF i > Len(f) THEN <<>>
    ELSE IF f[i] \in CapWords
    THEN <<ConcatTokens(SubSeq(f, i, PhraseEnd(f, i)))>>
         \o TopicMatches(f, PhraseEnd(f, i) + 1)
    ELSE TopicMatches(f, i + 1)

commonWords ==
    {"The", "This", "That", "And", "But", "Or", "So", "If", "When", "Where", "How",
     "What", "Who", "Why"}

\* .filter((match) => match.length > 2 && !commonWords.includes(match))
TopicCandidates(f) ==
    SelectSeq(TopicMatches(f, 1), LAMBDA m : Len(m) > 2 /\ m \notin commonWords)

RECURSIVE FirstOccurrences(_, _)
\* The topics the reduce pushes, in the order it pushes them.
FirstOccurrences(ms, seen) ==
    IF ms = <<>> THEN seen
    ELSE FirstOccurrences(Tail(ms),
             IF \E i \in 1..Len(seen) : seen[i] = Head(ms) THEN seen
             ELSE Append(seen, Head(ms)))

\* The reduce: 0.6 + Math.random() * 0.3 at the first occurrence, += 0.1 at each
\* repeat; confidences in hundredths.  rnd[k] is the draw for the k-th topic.
ReduceTopics(ms, rnd) ==
    LET firsts == FirstOccurrences(ms, <<>>)
        Repeats(t) == Cardinality({i \in 1..Len(ms) : ms[i] = t}) - 1
    IN [k \in 1..Len(firsts) |->
           [topic |-> firsts[k],
            confidence |-> 60 + rnd[k] + 10 * Repeats(firsts[k])]]

RECURSIVE InsertByConfidence(_, _)
\* Insert x after every entry whose confidence is not lower (stable sort).
InsertByConfidence(s, x) ==
    IF s = <<>> THEN <<x>>
    ELSE IF Head(s).confidence >= x.confidence
         THEN <<Head(s)>> \o InsertByConfidence(Tail(s), x)
         ELSE <<x>> \o s

RECURSIVE SortByConfidence(_)
\* .sort((a, b) => b.confidence - a.confidence)
SortByConfidence(s) ==
    IF s = <<>> THEN <<>>
    ELSE InsertByConfidence(SortByConfidence(SubSeq(s, 1, Len(s) - 1)), s[Len(s)])

\* extractTopics, with the draws of Math.random() as rnd
extractTopics(f, rnd) ==
    LET sorted == SortByConfidence(ReduceTopics(TopicCandidates(f), rnd))
    IN SubSeq(sorted, 1, IF Len(sorted) < 10 THEN Len(sorted) ELSE 10)

\* The number of Math.random() calls extractTopics makes on f.
RandomCalls(f) == Len(FirstOccurrences(TopicCandidates(f), <<>>))

\* toLowerCase() of a token.
LowerCaseToken(t) ==
    CASE t = "Speaker" -> "speaker" [] t = "Person" -> "person"
      [] t = "Alice"   -> "alice"   [] t = "The"    -> "the"
      [] t = "Quick"   -> "quick"   [] t = "Brown"  -> "brown"
      [] t = "Fox"     -> "fox"     [] t = "If"     -> "if"
      [] t = "A"       -> "a"       [] OTHER        -> t

RECURSIVE SplitFrom(_, _, _, _)
\* split(/\s+/) from token i of f: current is the word being read and inSpace
\* tells that the separator before it has been read.  Whitespace at either
\* end of the text leaves an empty word there.
SplitFrom(f, i, current, inSpace) ==
    IF i > Len(f) THEN <<current>>
    ELSE IF f[i] \in Whitespace
    THEN IF inSpace THEN SplitFrom(f, i + 1, current, TRUE)
         ELSE <<current>> \o SplitFrom(f, i + 1, <<>>, TRUE)
    ELSE SplitFrom(f, i + 1, Append(current, LowerCaseToken(f[i])), FALSE)

\* text.toLowerCase().split(/\s+/), each word as its tokens
LowerCaseWords(f) == SplitFrom(f, 1, <<>>, FALSE)

positiveWords ==
    {"good", "great", "excellent", "amazing", "wonderful", "fantastic", "love",
     "like", "happy", "pleased"}
negativeWords ==
    {"bad", "terrible", "awful", "hate", "dislike", "angry", "frustrated",
     "disappointed", "sad", "upset"}

\* The strings of the two lists that token t includes as a substring.
ListedParts(t) == IF t = "dislike" THEN {"dislike", "like"} ELSE {t}

\* list.some((w) => word.includes(w)): a listed word is made of letters, so it
\* lies inside one token of the word.
IncludesSome(word, list) ==
    \E i \in 1..Len(word) : ListedParts(word[i]) \cap list # {}

\* analyzeSentiment; confidence is min(0.9, |p - n| / words.length * 10) as a
\* fraction
analyzeSentiment(f) ==
    LET words == LowerCaseWords(f)
        positiveCount ==
            Cardinality({i \in 1..Len(words) : IncludesSome(words[i], positiveWords)})
        negativeCount ==
            Cardinality({i \in 1..Len(words) : IncludesSome(words[i], negativeWords)})
        gap == IF positiveCount > negativeCount THEN positiveCount - negativeCount
               ELSE negativeCount - positiveCount
    IN [kind |-> "sentiment",
        overall |->
            [sentiment  |-> IF positiveCount > negativeCount THEN "positive"
                            ELSE IF negativeCount > positiveCount THEN "negative"
                            ELSE "neutral",
             confidence |-> IF 100 * gap >= 9 * Len(words)
                            THEN [num |-> 9, den |-> 10]
                            ELSE [num |-> 10 * gap, den |-> Len(words)],
             distribution |-> [positive |-> positiveCount,
                               negative |-> negativeCount,
                               neutral  |-> Len(words) - positiveCount - negativeCount]],
        segments |-> Arr(<<>>)]

\* The value processGeminiResponse returns for the text of these lines, with
\* rnd the draws of Math.random(); confidence 0.85 in hundredths.
processGeminiResponse(textLines, rnd) ==
    LET f        == Flatten(textLines)
        lines    == NonBlankLines(textLines)
        segments == [i \in 1..Len(lines) |-> GeminiSegment(lines[i], i - 1)]
        speakers == AddedInOrder(segments, <<>>)
        words    == LowerCaseWords(f)
    IN [kind       |-> "result",
        text       |-> ConcatTokens(f),
        confidence |-> 85,
        language   |-> detectLanguage([i \in 1..Len(words) |-> ConcatTokens(words[i])]),
        speakers   |-> Arr(speakers),
        segments   |-> Arr(segments),
        paragraphs |-> Arr(SelectSeq(segments, LAMBDA s : Len(s.text) > 0)),
        topics     |-> Arr(extractTopics(f, rnd)),
        sentiment  |-> analyzeSentiment(f),
        timestamps |-> Arr(TimestampMatches(f, 1)),
        provider   |-> "gemini",
        model      |-> "gemini-2.0-flash-exp",
        raw        |-> [text |-> ConcatTokens(f), segments |-> Arr(segments),
                        speakers |-> Arr(speakers)]]

GeminiInit ==
    /\ transcriptionText \in SeqsBetween(GeminiLines, 1, MaxLines)
    /\ geminiRuns = <<>>

GeminiIdle ==
    /\ transcriptionText = <<>>
    /\ geminiRuns = <<>>

\* One call of processGeminiResponse; the same text is normalized twice.
ProcessGeminiResponse ==
    /\ Len(geminiRuns) < 2
    /\ \E rnd \in [1..RandomCalls(Flatten(transcriptionText)) -> RandomDraws] :
           geminiRuns' = Append(geminiRuns, processGeminiResponse(transcriptionText, rnd))
    /\ UNCHANGED transcriptionText
    /\ OnlyGemini

(***************************************************************************)
(* One provider call: the POST handlers of the Deepgram and Gemini routes  *)
(* and transcribeAudio (transcription-service.ts)                          *)
(***************************************************************************)

\* Who calls the provider: the two routes, and transcribeAudio for OpenAI.
CallSites == {"deepgram", "gemini", "openai"}

\* What a route receives: the form may carry no file, its options field may
\* not be JSON, and the environment may hold no key for the provider.
\* audioFile.type is "" for a file of unknown type.
FileTypes == {"", "audio/mp4"}
RouteInputs ==
    [hasFile : BOOLEAN, fileType : FileTypes, optionsParse : BOOLEAN,
     keyConfigured : BOOLEAN]

\* Non-2xx answers: response.status and response.statusText ...
HttpFailures ==
    {[status |-> 400, statusText |-> "Bad Request"],
     [status |-> 401, statusText |-> "Unauthorized"],
     [status |-> 502, statusText |-> "Bad Gateway"]}

\* ... and response.text(): JSON with Deepgram's err_msg, JSON with OpenAI's
\* error.message, JSON with neither, and a body that is not JSON.
ErrorTexts ==
    {"{\"err_msg\":\"Invalid credentials.\"}",
     "{\"error\":{\"message\":\"Incorrect API key provided\"}}",
     "{}",
     "upstream connect error"}

\* JSON.parse(errorText): the two fields the handlers read ("" when absent), or
\* the SyntaxError thrown.
JsonParse(errorText) ==
    CASE errorText = "{\"err_msg\":\"Invalid credentials.\"}" ->
            [kind |-> "object", err_msg |-> "Invalid credentials.", errorMessage |-> ""]
      [] errorText = "{\"error\":{\"message\":\"Incorrect API key provided\"}}" ->
            [kind |-> "object", err_msg |-> "", errorMessage |-> "Incorrect API key provided"]
      [] errorText = "{}" ->
            [kind |-> "object", err_msg |-> "", errorMessage |-> ""]
      [] OTHER -> [kind |-> "throw", error |-> "SyntaxError"]

\* error.message of what fetch, JSON.parse of the options, or the Gemini SDK
\* throws; "" for an error without a message.
FetchErrors == {"Failed to fetch"}
OptionsSyntaxError == "Unexpected token o in JSON at position 1"
GeminiErrors ==
    {"API key not valid. Please pass a valid API key.",
     "Resource has been exhausted (e.g. check quota).",
     "Candidate was blocked due to safety",
     "fetch failed",
     ""}

\* error.message?.includes(needle) for the messages above.
MessageIncludes(message, needle) ==
    <<message, needle>> \in
        {<<"API key not valid. Please pass a valid API key.", "API key">>,
         <<"Resource has been exhausted (e.g. check quota).", "quota">>,
         <<"Candidate was blocked due to safety", "safety">>}

\* The 2xx bodies: Deepgram's JSON (one of them makes the normalizer throw),
\* Gemini's text (may be empty), OpenAI's JSON.
DeepgramBodies ==
    {[results |-> [kind |-> "results",
                   channels |-> Arr(<<[kind |-> "channel", alternatives |-> Undefined]>>),
                   topics |-> Undefined, sentiment |-> Undefined,
                   detected_language |-> Undefined]],
     [results |-> [kind |-> "results",
                   channels |-> Arr(<<[kind |-> "channel",
                       alternatives |-> Arr(<<[kind |-> "alternative",
                           transcript |-> "hello", confidence |-> 9,
                           words |-> Arr(<<>>), paragraphs |-> Undefined]>>)]>>),
                   topics |-> Undefined, sentiment |-> Undefined,
                   detected_language |-> Undefined]]}
GeminiTexts == {<<>>, <<(<<"Speaker", " ", "1", ":", " ", "Fox">>)>>}

\* The check of the key with the test left out.
CredentialNeverMissing(input) == FALSE

\* if (!DEEPGRAM_API_KEY) / if (!GEMINI_API_KEY)
CredentialMissing(input) == ~input.keyConfigured

\* NextResponse.json({ error, details }, { status })
ErrorResponse(code, errorMessage, details) ==
    [kind |-> "error", status |-> code, error |-> errorMessage, details |-> details]

\* NextResponse.json(processedResult)
ResultResponse(body) == [kind |-> "result", status |-> 200, body |-> body]

\* The message the catch of the Gemini route answers with.
GeminiErrorMessage(message) ==
    IF MessageIncludes(message, "API key") THEN "Invalid Gemini API key"
    ELSE IF MessageIncludes(message, "quota") THEN "Gemini API quota exceeded"
    ELSE IF MessageIncludes(message, "safety") THEN "Content blocked by Gemini safety filters"
    ELSE IF message # "" THEN message
    ELSE "Transcription failed"

\* The catch of a route, for an error with this message.
RouteCatch(site, message) ==
    IF site = "deepgram" THEN ErrorResponse(500, "Transcription failed", message)
    ELSE ErrorResponse(500, GeminiErrorMessage(message), message)

\* The message of the Deepgram route for a non-2xx answer.
DeepgramErrorMessage(failure, errorText) ==
    LET generic == "Deepgram API error: " \o NumStr(failure.status) \o " "
                   \o failure.statusText
        errorJson == JsonParse(errorText)
    IN IF errorJson.kind = "throw" THEN generic \o " - " \o errorText
       ELSE IF errorJson.err_msg # "" THEN errorJson.err_msg
       ELSE generic

\* The message transcribeAudio throws inside its try for a non-2xx answer.
ApiErrorMessage(failure, errorText) ==
    LET generic == "API Error: " \o NumStr(failure.status) \o " " \o failure.statusText
        errorJson == JsonParse(errorText)
    IN IF errorJson.kind = "throw" THEN generic \o " - " \o errorText
       ELSE IF errorJson.errorMessage # "" THEN errorJson.errorMessage
       ELSE generic

\* A catch that throws the error on as it is.
RethrowVerbatim(message) == [kind |-> "throw", message |-> message]

\* The catch of transcribeAudio: throw new Error(`Transcription failed: ${error.message}`)
Rethrow(message) == [kind |-> "throw", message |-> "Transcription failed: " \o message]

\* No answer received.
NoAnswer == [kind |-> "none"]

CallInit ==
    /\ callSite \in CallSites
    /\ callInput \in IF callSite = "openai"
                     THEN {[hasFile |-> TRUE, fileType |-> "audio/webm",
                            optionsParse |-> TRUE, keyConfigured |-> TRUE]}
                     ELSE {input \in RouteInputs : input.hasFile \/ input.fileType = ""}
    /\ providerRequests = <<>>
    /\ providerAnswer = NoAnswer
    /\ callPc = "received"
    /\ callResponse = Pending

CallIdle ==
    /\ callSite = "deepgram"
    /\ callInput = [hasFile |-> TRUE, fileType |-> "", optionsParse |-> TRUE,
                     keyConfigured |-> TRUE]
    /\ providerRequests = <<>>
    /\ providerAnswer = NoAnswer
    /\ callPc = "idle"
    /\ callResponse = Pending

\* The handler ends with this response; nothing is sent.
Respond(resp) ==
    /\ callResponse' = resp
    /\ callPc' = "done"
    /\ UNCHANGED <<callSite, callInput, providerRequests, providerAnswer>>

\* The handler sends its request to the provider and awaits the answer.
CallProvider(url, contentType) ==
    /\ providerRequests' =
          Append(providerRequests, [url |-> url, contentType |-> contentType])
    /\ callPc' = "awaiting"
    /\ UNCHANGED <<callSite, callInput, providerAnswer, callResponse>>

\* audioFile.type || fallback
TypeOr(fileType, fallback) == IF fileType = "" THEN fallback ELSE fileType

\* POST of the Deepgram route up to its await of fetch: parse the form, check
\* the file, check the key, send.
PostDeepgram ==
    /\ callSite = "deepgram"
    /\ callPc = "received"
    /\ IF ~callInput.optionsParse THEN Respond(RouteCatch("deepgram", OptionsSyntaxError))
       ELSE IF ~callInput.hasFile
       THEN Respond(ErrorResponse(400, "No audio file provided", ""))
       ELSE IF CredentialMissing(callInput)
       THEN Respond(ErrorResponse(500,
                "Deepgram API key not configured. Please set DEEPGRAM_API_KEY environment variable.",
                ""))
       ELSE CallProvider("https://api.deepgram.com/v1/listen",
                         TypeOr(callInput.fileType, "audio/wav"))
    /\ OnlyCall

\* POST of the Gemini route up to its await of generateContent.
PostGemini ==
    /\ callSite = "gemini"
    /\ callPc = "received"
    /\ IF ~callInput.optionsParse THEN Respond(RouteCatch("gemini", OptionsSyntaxError))
       ELSE IF ~callInput.hasFile
       THEN Respond(ErrorResponse(400, "No audio file provided", ""))
       ELSE IF CredentialMissing(callInput)
       THEN Respond(ErrorResponse(500,
                "Gemini API key not configured. Please set GEMINI_API_KEY environment variable.",
                ""))
       ELSE CallProvider("generateContent", TypeOr(callInput.fileType, "audio/webm"))
    /\ OnlyCall

\* transcribeAudio up to its await of fetch.
TranscribeAudio ==
    /\ callSite = "openai"
    /\ callPc = "received"
    /\ CallProvider("https://api.openai.com/v1/audio/transcriptions", "multipart/form-data")
    /\ OnlyCall

\* The awaited answer arrives and the handler ends with resp.
Settle(answer, resp) ==
    /\ providerAnswer' = answer
    /\ callResponse' = resp
    /\ callPc' = "done"
    /\ UNCHANGED <<callSite, callInput, providerRequests>>

\* Deepgram answers 2xx: the body is normalized; a throw of the normalizer is
\* caught by the route.
DeepgramAnswersOk ==
    /\ callSite = "deepgram"
    /\ callPc = "awaiting"
    /\ \E body \in DeepgramBodies :
        LET processedResult == processDeepgramResponse(body) IN
        Settle([kind |-> "ok", body |-> body],
               IF processedResult.kind = "throw"
               THEN RouteCatch("deepgram", "Cannot read properties of undefined (reading '0')")
               ELSE ResultResponse(processedResult))
    /\ OnlyCall

\* Deepgram answers non-2xx.
DeepgramAnswersError ==
    /\ callSite = "deepgram"
    /\ callPc = "awaiting"
    /\ \E failure \in HttpFailures, errorText \in ErrorTexts :
        Settle([kind |-> "http", failure |-> failure, errorText |-> errorText],
               ErrorResponse(failure.status, DeepgramErrorMessage(failure, errorText),
                             errorText))
    /\ OnlyCall

\* fetch to Deepgram rejects.
DeepgramUnreachable ==
    /\ callSite = "deepgram"
    /\ callPc = "awaiting"
    /\ \E message \in FetchErrors :
        Settle([kind |-> "rejected", message |-> message], RouteCatch("deepgram", message))
    /\ OnlyCall

\* generateContent resolves: an empty text is an error, any other is normalized.
GeminiAnswers ==
    /\ callSite = "gemini"
    /\ callPc = "awaiting"
    /\ \E textLines \in GeminiTexts :
        \E rnd \in [1..RandomCalls(Flatten(textLines)) -> RandomDraws] :
            Settle([kind |-> "ok", body |-> textLines],
                   IF ConcatTokens(Flatten(textLines)) = ""
                   THEN ErrorResponse(500, "Transcription failed or returned empty", "")
                   ELSE ResultResponse(processGeminiResponse(textLines, rnd)))
    /\ OnlyCall

\* generateContent throws.
GeminiThrows ==
    /\ callSite = "gemini"
    /\ callPc = "awaiting"
    /\ \E message \in GeminiErrors :
        Settle([kind |-> "rejected", message |-> message], RouteCatch("gemini", message))
    /\ OnlyCall

\* OpenAI answers 2xx: transcribeAudio returns the JSON body.
OpenAIAnswersOk ==
    /\ callSite = "openai"
    /\ callPc = "awaiting"
    /\ \E data \in ResponseBodies :
        Settle([kind |-> "ok", body |-> data], [kind |-> "return", data |-> data])
    /\ OnlyCall

\* OpenAI answers non-2xx: the error thrown in the try is caught and thrown on.
OpenAIAnswersError ==
    /\ callSite = "openai"
    /\ callPc = "awaiting"
    /\ \E failure \in HttpFailures, errorText \in ErrorTexts :
        Settle([kind |-> "http", failure |-> failure, errorText |-> errorText],
               Rethrow(ApiErrorMessage(failure, errorText)))
    /\ OnlyCall

\* fetch to OpenAI rejects.
OpenAIUnreachable ==
    /\ callSite = "openai"
    /\ callPc = "awaiting"
    /\ \E message \in FetchErrors :
        Settle([kind |-> "rejected", message |-> message], Rethrow(message))
    /\ OnlyCall

(***************************************************************************)
(* SpeechToTextApp: recording, upload and stored-recording pipelines       *)
(* (stt-enhanced.tsx, and the earlier version of the component, which has  *)
(* no error state)                                                         *)
(***************************************************************************)

\* Bound: most requests (recordings, uploads, selections) of one session.
MaxRequests == 2

\* The two versions of the component.
AppVersions == {"enhanced", "basic"}

\* error.message of what saveRecording, fetchRecordingBlob and the provider
\* call of transcribeAudioChunks throw.
SaveError       == "API error: 500 Internal Server Error"
FetchBlobError  == "Failed to fetch recording: HTTP error! status: 404"
TranscribeError == "Deepgram transcription failed"

\* The result fields after "Clear previous results"; 0 stands for "" and n for
\* the text made from the result of request n.
NoResult == [transcriptText |-> 0, timestampedText |-> 0, jsonOutput |-> 0]

\* setTranscriptText / setTimestampedText / setJsonOutput with the result of
\* request p.
ResultOf(p) == [transcriptText |-> p, timestampedText |-> p, jsonOutput |-> p]

\* `Error: ${error.message}`
ErrorMessageOf(message) == "Error: " \o message

\* setError(value); the earlier version has no error state.
SetError(value) == error' = IF appVersion = "enhanced" THEN value ELSE error

AppInit ==
    /\ appVersion \in AppVersions
    /\ isRecording = FALSE
    /\ isProcessing = FALSE
    /\ status = "Ready to record or upload"
    /\ error = ""
    /\ resultFields = NoResult
    /\ pipelines = <<>>
    /\ mediaRecorderRef = 0
    /\ audioChunksRef = FALSE
    /\ isPaused = FALSE
    /\ streamRef = 0
    /\ liveStreams = {}

AppIdle ==
    /\ appVersion = "enhanced"
    /\ isRecording = FALSE
    /\ isProcessing = FALSE
    /\ status = "idle"
    /\ error = ""
    /\ resultFields = NoResult
    /\ pipelines = <<>>
    /\ mediaRecorderRef = 0
    /\ audioChunksRef = FALSE
    /\ isPaused = FALSE
    /\ streamRef = 0
    /\ liveStreams = {}

\* A new request of this kind, at this position.
Begin(kind, pc) ==
    /\ Len(pipelines) < MaxRequests
    /\ pipelines' = Append(pipelines, [kind |-> kind, pc |-> pc, message |-> ""])

\* Request p moves to pc.
Move(p, pc) == pipelines' = [pipelines EXCEPT ![p].pc = pc]

\* Request p ends in its catch with this message.
Failed(p, message) ==
    pipelines' = [pipelines EXCEPT ![p].pc = "failed", ![p].message = message]

\* "Stop and release media stream": the tracks of streamRef.current are
\* stopped and the ref is cleared.
ReleaseStream ==
    /\ liveStreams' = liveStreams \ {streamRef}
    /\ streamRef' = 0

\* resetRecording(message)
resetRecording(message) ==
    /\ isRecording' = FALSE
    /\ isPaused' = FALSE
    /\ isProcessing' = FALSE
    /\ status' = message
    /\ mediaRecorderRef' = 0
    /\ audioChunksRef' = FALSE
    /\ ReleaseStream

\* A catch of processRecordedAudio that ends as the other two do.
CatchWithoutReset(errorMessage) ==
    /\ status' = errorMessage
    /\ SetError(errorMessage)
    /\ isProcessing' = FALSE
    /\ UNCHANGED <<isRecording, mediaRecorderRef, audioChunksRef, varsMic>>

\* The catch of processRecordedAudio: setStatus, setError, resetRecording().
CatchRecorded(errorMessage) ==
    /\ resetRecording("Ready to record or upload")
    /\ SetError(errorMessage)

\* The catch of processUploadedFile and of handleRecordingSelect.
CatchOther(errorMessage) ==
    /\ status' = errorMessage
    /\ SetError(errorMessage)
    /\ isProcessing' = FALSE
    /\ UNCHANGED <<isRecording, mediaRecorderRef, audioChunksRef, varsMic>>

\* The catch of the pipeline of request p.
Catch(p, message) ==
    /\ Failed(p, ErrorMessageOf(message))
    /\ IF pipelines[p].kind = "recording"
       THEN CatchRecorded(ErrorMessageOf(message))
       ELSE CatchOther(ErrorMessageOf(message))
    /\ UNCHANGED <<appVersion, resultFields>>

\* startRecording up to its await of getUserMedia.  The button is shown while
\* nothing records and is disabled while a pipeline runs.
StartRecording ==
    /\ ~isRecording /\ ~isProcessing
    /\ Begin("recording", "requesting")
    /\ SetError("")
    /\ status' = "Requesting microphone permission..."
    /\ UNCHANGED <<appVersion, isRecording, isProcessing, resultFields,
                   mediaRecorderRef, audioChunksRef, varsMic>>
    /\ OnlyApp

\* getUserMedia resolves: the results are cleared and the recorder starts.
MicGranted ==
    \E p \in 1..Len(pipelines) :
        /\ pipelines[p].pc = "requesting"
        /\ Move(p, "recording")
        /\ resultFields' = NoResult
        /\ mediaRecorderRef' = p
        /\ audioChunksRef' = FALSE
        /\ streamRef' = p
        /\ liveStreams' = liveStreams \cup {p}
        /\ isRecording' = TRUE
        /\ isPaused' = FALSE
        /\ status' = "Recording in progress..."
        /\ UNCHANGED <<appVersion, isProcessing, error>>
        /\ OnlyApp

\* getUserMedia rejects.
MicDenied ==
    \E p \in 1..Len(pipelines) :
        /\ pipelines[p].pc = "requesting"
        /\ Move(p, "denied")
        /\ status' = "Microphone permission denied. Please allow access in browser settings."
        /\ SetError("Microphone permission denied. Please allow access in browser settings.")
        /\ UNCHANGED <<appVersion, isRecording, isProcessing, resultFields,
                       mediaRecorderRef, audioChunksRef, varsMic>>
        /\ OnlyApp

\* ondataavailable of a recorder, with data: every second while it records,
\* and once more after stop().
DataAvailable ==
    \E p \in 1..Len(pipelines) :
        /\ pipelines[p].pc \in {"recording", "stopping"}
        /\ audioChunksRef = FALSE
        /\ audioChunksRef' = TRUE
        /\ UNCHANGED <<appVersion, isRecording, isProcessing, status, error,
                       resultFields, pipelines, mediaRecorderRef, varsMic>>
        /\ OnlyApp

\* pauseRecording on the current recorder; the button is shown while a
\* recording is not paused.
PauseRecording ==
    /\ isRecording /\ ~isPaused /\ ~isProcessing
    /\ mediaRecorderRef # 0
    /\ pipelines[mediaRecorderRef].pc = "recording"
    /\ Move(mediaRecorderRef, "paused")
    /\ isPaused' = TRUE
    /\ status' = "Recording paused"
    /\ UNCHANGED <<appVersion, isRecording, isProcessing, error, resultFields,
                   mediaRecorderRef, audioChunksRef, streamRef, liveStreams>>
    /\ OnlyApp

\* resumeRecording on the current recorder; the button is shown while a
\* recording is paused.
ResumeRecording ==
    /\ isRecording /\ isPaused /\ ~isProcessing
    /\ mediaRecorderRef # 0
    /\ pipelines[mediaRecorderRef].pc = "paused"
    /\ Move(mediaRecorderRef, "recording")
    /\ isPaused' = FALSE
    /\ status' = "Recording resumed"
    /\ UNCHANGED <<appVersion, isRecording, isProcessing, error, resultFields,
                   mediaRecorderRef, audioChunksRef, streamRef, liveStreams>>
    /\ OnlyApp

\* Whether mediaRecorderRef.current is a recorder in state recording or paused.
RecorderActive ==
    /\ mediaRecorderRef # 0
    /\ pipelines[mediaRecorderRef].pc \in {"recording", "paused"}

\* stopRecording: the current recorder is stopped if it is active, and the
\* current stream is released.  The button is shown while isRecording and is
\* disabled while a pipeline runs.
StopRecording ==
    /\ isRecording /\ ~isProcessing
    /\ RecorderActive \/ streamRef # 0
    /\ IF RecorderActive
       THEN /\ Move(mediaRecorderRef, "stopping")
            /\ status' = "Stopping recording..."
       ELSE UNCHANGED <<pipelines, status>>
    /\ ReleaseStream
    /\ UNCHANGED <<appVersion, isRecording, isProcessing, error, resultFields,
                   mediaRecorderRef, audioChunksRef, isPaused>>
    /\ OnlyApp

\* onstop of the recorder of request p: with data, processRecordedAudio runs up
\* to its await of saveRecording; without, the recording is reset.
RecorderStopped ==
    \E p \in 1..Len(pipelines) :
        /\ pipelines[p].pc = "stopping"
        /\ IF audioChunksRef
           THEN /\ Move(p, "saving")
                /\ isProcessing' = TRUE
                /\ SetError("")
                /\ status' = IF appVersion = "enhanced" THEN "Saving recording..."
                             ELSE "Processing audio..."
                /\ UNCHANGED <<isRecording, mediaRecorderRef, audioChunksRef, varsMic>>
           ELSE /\ Move(p, "empty")
                /\ resetRecording("No audio data recorded")
                /\ UNCHANGED error
        /\ UNCHANGED <<appVersion, resultFields>>
        /\ OnlyApp

\* handleFileUpload with a file: the results are cleared and processUploadedFile
\* runs up to its await of saveRecording.  The input is disabled while
\* something records or a pipeline runs.
HandleFileUpload ==
    /\ ~isRecording /\ ~isProcessing
    /\ Begin("upload", "saving")
    /\ resultFields' = NoResult
    /\ isProcessing' = TRUE
    /\ SetError("")
    /\ status' = IF appVersion = "enhanced" THEN "Saving file..."
                 ELSE "Processing uploaded file: audio.mp3"
    /\ UNCHANGED <<appVersion, isRecording, mediaRecorderRef, audioChunksRef, varsMic>>
    /\ OnlyApp

\* handleRecordingSelect up to its await of fetchRecordingBlob; the button of
\* the recordings list is never disabled.
HandleRecordingSelect ==
    /\ Begin("select", "fetching")
    /\ isProcessing' = TRUE
    /\ SetError("")
    /\ status' = "Processing selected recording..."
    /\ UNCHANGED <<appVersion, isRecording, resultFields, mediaRecorderRef,
                   audioChunksRef, varsMic>>
    /\ OnlyApp

\* saveRecording resolves: processAudioChunks is called.
SaveSucceeds ==
    \E p \in 1..Len(pipelines) :
        /\ pipelines[p].pc = "saving"
        /\ Move(p, "chunking")
        /\ status' = "Removing silence and chunking audio..."
        /\ UNCHANGED <<appVersion, isRecording, isProcessing, error, resultFields,
                       mediaRecorderRef, audioChunksRef, varsMic>>
        /\ OnlyApp

\* saveRecording rejects.
SaveFails ==
    \E p \in 1..Len(pipelines) :
        /\ pipelines[p].pc = "saving"
        /\ Catch(p, SaveError)
        /\ OnlyApp

\* fetchRecordingBlob resolves: the results are cleared and processAudioChunks
\* is called.
FetchSucceeds ==
    \E p \in 1..Len(pipelines) :
        /\ pipelines[p].pc = "fetching"
        /\ Move(p, "chunking")
        /\ resultFields' = NoResult
        /\ status' = "Removing silence and chunking audio..."
        /\ UNCHANGED <<appVersion, isRecording, isProcessing, error,
                       mediaRecorderRef, audioChunksRef, varsMic>>
        /\ OnlyApp

\* fetchRecordingBlob rejects.
FetchFails ==
    \E p \in 1..Len(pipelines) :
        /\ pipelines[p].pc = "fetching"
        /\ Catch(p, FetchBlobError)
        /\ OnlyApp

\* processAudioChunks resolves (it never rejects): transcribeAudioChunks is
\* called.
ChunksReady ==
    \E p \in 1..Len(pipelines) :
        /\ pipelines[p].pc = "chunking"
        /\ Move(p, "transcribing")
        /\ status' = IF appVersion = "enhanced" THEN "Transcribing with Google Gemini..."
                     ELSE "Transcribing chunk 1 of 1..."
        /\ UNCHANGED <<appVersion, isRecording, isProcessing, error, resultFields,
                       mediaRecorderRef, audioChunksRef, varsMic>>
        /\ OnlyApp

\* transcribeAudioChunks resolves: the results of request p are shown.
TranscriptionSucceeds ==
    \E p \in 1..Len(pipelines) :
        /\ pipelines[p].pc = "transcribing"
        /\ Move(p, "done")
        /\ resultFields' = ResultOf(p)
        /\ IF pipelines[p].kind = "recording"
           THEN resetRecording("Transcription complete!")
           ELSE /\ isProcessing' = FALSE
                /\ status' = "Transcription complete!"
                /\ UNCHANGED <<isRecording, mediaRecorderRef, audioChunksRef, varsMic>>
        /\ UNCHANGED <<appVersion, error>>
        /\ OnlyApp

\* transcribeAudioChunks rejects; in the earlier version it is a simulation that
\* cannot.
TranscriptionFails ==
    \E p \in 1..Len(pipelines) :
        /\ appVersion = "enhanced"
        /\ pipelines[p].pc = "transcribing"
        /\ Catch(p, TranscribeError)
        /\ OnlyApp

\* The dismiss button of the error banner: setError(null).
DismissError ==
    /\ appVersion = "enhanced"
    /\ error # ""
    /\ error' = ""
    /\ UNCHANGED <<appVersion, isRecording, isProcessing, status, resultFields,
                   pipelines, mediaRecorderRef, audioChunksRef, varsMic>>
    /\ OnlyApp

(***************************************************************************)
(* Specifications: one per component, the other components idle            *)
(***************************************************************************)
(***************************************************************************)
(* detectSilence (audio-processor.ts)                                      *)
(***************************************************************************)

\* Bound: most samples of a channel.
MaxSamples == 4

\* The sample values of channelData, in units of the smallest threshold.
SampleValues == {-2, 0, 1}

SampleRates == {1, 2}

\* Values of silenceThreshold, and of minSilenceDuration in half seconds.
SilenceThresholds == {0, 1, 2}
MinSilenceHalves  == 0..3

\* Math.abs
Abs(x) == IF x < 0 THEN -x ELSE x

\* Math.round(minSilenceDuration * sampleRate): a half rounds up.
SilenceFrames(minHalves, sampleRate) == (minHalves * sampleRate + 1) \div 2

\* i / sampleRate, kept as an exact fraction.
Seconds(i, sampleRate) == [num |-> i, den |-> sampleRate]

\* The test before a push: isSilence && consecutiveSilenceFrames >= silenceFrames
EnoughSilence(st, silenceFrames) ==
    st.isSilence /\ st.consecutiveSilenceFrames >= silenceFrames

\* The test after the loop, left out.
EndedInSilenceIgnored(st, silenceFrames) == FALSE

\* The test after the loop: "Check if we ended in silence".
EndedInSilence(st, silenceFrames) == EnoughSilence(st, silenceFrames)

\* The loop body for index i (0-based) on the locals st.
SilenceStep(channelData, i, st, threshold, silenceFrames, sampleRate) ==
    IF Abs(channelData[i + 1]) < threshold
    THEN [st EXCEPT !.isSilence = TRUE,
                    !.silenceStart = IF st.isSilence THEN @ ELSE i,
                    !.consecutiveSilenceFrames = @ + 1]
    ELSE [st EXCEPT !.silenceRanges =
                        IF EnoughSilence(st, silenceFrames)
                        THEN Append(@, [start |-> Seconds(st.silenceStart, sampleRate),
                                        end   |-> Seconds(i, sampleRate)])
                        ELSE @,
                    !.isSilence = FALSE,
                    !.consecutiveSilenceFrames = 0]

RECURSIVE SilenceLoop(_, _, _, _, _, _)
\* The for loop from index i on.
SilenceLoop(channelData, i, st, threshold, silenceFrames, sampleRate) ==
    IF i >= Len(channelData) THEN st
    ELSE SilenceLoop(channelData, i + 1,
                     SilenceStep(channelData, i, st, threshold, silenceFrames,
                                 sampleRate),
                     threshold, silenceFrames, sampleRate)

\* detectSilence: the ranges it returns.
detectSilence(buffer, threshold, minHalves) ==
    LET channelData   == buffer.channelData
        sampleRate    == buffer.sampleRate
        silenceFrames == SilenceFrames(minHalves, sampleRate)
        st == SilenceLoop(channelData, 0,
                          [silenceRanges |-> <<>>, isSilence |-> FALSE,
                           silenceStart |-> 0, consecutiveSilenceFrames |-> 0],
                          threshold, silenceFrames, sampleRate)
    IN IF EndedInSilence(st, silenceFrames)
       THEN Append(st.silenceRanges,
                   [start |-> Seconds(st.silenceStart, sampleRate),
                    end   |-> Seconds(Len(channelData), sampleRate)])
       ELSE st.silenceRanges

SilenceInit ==
    /\ audioBuffer \in [channelData : SeqsBetween(SampleValues, 0, MaxSamples),
                        sampleRate  : SampleRates]
    /\ silenceThreshold \in SilenceThresholds
    /\ minSilenceDuration \in MinSilenceHalves
    /\ silenceRanges = Pending

SilenceIdle ==
    /\ audioBuffer = [channelData |-> <<>>, sampleRate |-> 1]
    /\ silenceThreshold = 0
    /\ minSilenceDuration = 0
    /\ silenceRanges = Pending

\* One call of detectSilence.
DetectSilence ==
    /\ silenceRanges = Pending
    /\ silenceRanges' = Arr(detectSilence(audioBuffer, silenceThreshold,
                                          minSilenceDuration))
    /\ UNCHANGED <<audioBuffer, silenceThreshold, minSilenceDuration>>
    /\ OnlySilence

(***************************************************************************)
(* chunkAudio (audio-processor.ts) and processAudioChunks (stt-enhanced)   *)
(***************************************************************************)

\* Bound: most samples of an AudioBuffer.
MaxAudioSamples == 250

\* Bound: most bytes of a Blob.
MaxBlobBytes == 5

\* maxChunkDuration (its default) and chunkSize, in seconds.
maxChunkDuration == 100
chunkSize == 100

\* audioElement.duration, in seconds.
Durations == {40, 100, 101, 250}

\* Math.ceil(a / b) for a >= 0 and b > 0.
CeilDiv(a, b) == (a + b - 1) \div b

\* Math.min
Min(a, b) == IF a < b THEN a ELSE b

\* The samples / bytes of s with 0-based indices from .. to - 1.
SliceOf(s, from, to) == [j \in 1..(to - from) |-> s[from + j]]

\* Chunk i (0-based) of chunkAudio: the copy loop over startSample + j.
ChunkBuffer(buffer, i) ==
    LET maxChunkSamples == maxChunkDuration * buffer.sampleRate
        startSample     == i * maxChunkSamples
        endSample       == Min(startSample + maxChunkSamples, Len(buffer.samples))
    IN [samples    |-> SliceOf(buffer.samples, startSample, endSample),
        sampleRate |-> buffer.sampleRate]

\* chunkAudio with the default maxChunkDuration.
chunkAudio(buffer) ==
    LET maxChunkSamples == maxChunkDuration * buffer.sampleRate
        numChunks       == CeilDiv(Len(buffer.samples), maxChunkSamples)
    IN [k \in 1..numChunks |-> ChunkBuffer(buffer, k - 1)]

\* The conversion of the argument a / b of Blob.slice to an integer: the
\* nearest one, the even one of two that are equally near.
ClampToInteger(a, b) ==
    LET q == a \div b
        r == a % b
    IN IF 2 * r < b THEN q
       ELSE IF 2 * r > b THEN q + 1
       ELSE IF q % 2 = 0 THEN q ELSE q + 1

\* audioBlob.slice(0, audioBlob.size / numChunks)
FirstSlice(blob, numChunks) ==
    [bytes |-> SliceOf(blob.bytes, 0,
                       Min(ClampToInteger(Len(blob.bytes), numChunks),
                           Len(blob.bytes)))]

\* What onloadedmetadata resolves the promise of processAudioChunks with.
processAudioChunks(blob, duration) ==
    IF duration <= 100 THEN <<blob>>
    ELSE LET numChunks == CeilDiv(duration, chunkSize)
         IN [i \in 1..numChunks |-> FirstSlice(blob, numChunks)]

SliceInit ==
    /\ \E n \in 1..MaxAudioSamples, rate \in SampleRates :
           chunkInput = [samples |-> [j \in 1..n |-> j], sampleRate |-> rate]
    /\ chunkBuffers = Pending
    /\ \E size \in 1..MaxBlobBytes :
           audioBlob = [bytes |-> [j \in 1..size |-> j]]
    /\ blobChunks = Pending

SliceIdle ==
    /\ chunkInput = [samples |-> <<>>, sampleRate |-> 1]
    /\ chunkBuffers = Pending
    /\ audioBlob = [bytes |-> <<>>]
    /\ blobChunks = Pending

\* One call of chunkAudio.
ChunkAudio ==
    /\ chunkBuffers = Pending
    /\ chunkBuffers' = [kind |-> "array", items |-> chunkAudio(chunkInput)]
    /\ UNCHANGED <<chunkInput, audioBlob, blobChunks>>
    /\ OnlySlice

\* processAudioChunks: the audio element has loaded its metadata.
ProcessAudioChunks ==
    /\ blobChunks = Pending
    /\ \E duration \in Durations :
           blobChunks' = [kind |-> "array", loaded |-> TRUE, duration |-> duration,
                          items |-> processAudioChunks(audioBlob, duration)]
    /\ UNCHANGED <<chunkInput, chunkBuffers, audioBlob>>
    /\ OnlySlice

\* processAudioChunks: the audio element fires onerror.
ProcessAudioChunksError ==
    /\ blobChunks = Pending
    /\ blobChunks' = [kind |-> "array", loaded |-> FALSE, duration |-> 0,
                      items |-> <<audioBlob>>]
    /\ UNCHANGED <<chunkInput, chunkBuffers, audioBlob>>
    /\ OnlySlice

(***************************************************************************)
(* The recordings route: GET, POST and DELETE with the in-memory fallback  *)
(***************************************************************************)

\* Bound: most recordings stored at a time, and the last tick of the clock.
MaxStored == 2

\* The filename field of the form (or file.name).
Filenames == {"a b.webm", "a_b.webm"}

\* .replace(/[^a-zA-Z0-9.-]/g, "_")
Sanitize(filename) == IF filename = "a b.webm" THEN "a_b.webm" ELSE filename

\* `recordings/${timestamp}_${sanitizedFilename}`
Pathname(timestamp, filename) ==
    [prefix |-> "recordings/", timestamp |-> timestamp,
     sanitizedFilename |-> Sanitize(filename)]

\* The pathnames a request can name.
Pathnames == {Pathname(t, f) : t \in 1..MaxStored, f \in Filenames}

\* The pathnames of a list of recordings.
PathnamesOf(list) == {list[i].pathname : i \in 1..Len(list)}

\* The orders list() can return the blobs in.
Listings(stored) ==
    {l \in SeqsBetween(stored, Cardinality(stored), Cardinality(stored)) :
        PathnamesOf([i \in 1..Len(l) |-> [pathname |-> l[i]]]) = stored}

\* recordings.filter((r) => r.pathname !== pathname)
FilterOut(list, pathname) == SelectSeq(list, LAMBDA r : r.pathname # pathname)

StoreInit ==
    /\ blobToken \in BOOLEAN
    /\ blobs = {}
    /\ recordings = <<>>
    /\ clock = 1
    /\ saved = {}
    /\ removed = {}
    /\ storeResponse = Pending

StoreIdle ==
    /\ blobToken = FALSE
    /\ blobs = {}
    /\ recordings = <<>>
    /\ clock = 1
    /\ saved = {}
    /\ removed = {}
    /\ storeResponse = Pending

\* POST without a file: 400.
PostNoFile ==
    /\ storeResponse' = [kind |-> "error", status |-> 400,
                         error |-> "No file provided"]
    /\ UNCHANGED <<blobToken, blobs, recordings, clock, saved, removed>>
    /\ OnlyStore

\* POST: the token is set and put() resolves.
PostToBlob ==
    /\ blobToken
    /\ Cardinality(blobs) + Len(recordings) < MaxStored
    /\ \E now \in clock..MaxStored, filename \in Filenames :
           LET pathname == Pathname(now, filename)
           IN /\ clock' = now
              /\ blobs' = blobs \cup {pathname}
              /\ saved' = saved \cup {pathname}
              /\ removed' = removed \ {pathname}
              /\ storeResponse' = [kind |-> "recording", backend |-> "blob",
                                   pathname |-> pathname]
    /\ UNCHANGED <<blobToken, recordings>>
    /\ OnlyStore

\* POST: no token, or put() rejects; the recording is pushed to the array.
PostToMemory ==
    /\ Cardinality(blobs) + Len(recordings) < MaxStored
    /\ \E now \in clock..MaxStored, filename \in Filenames :
           LET pathname == Pathname(now, filename)
           IN /\ clock' = now
              /\ recordings' = Append(recordings, [pathname |-> pathname])
              /\ saved' = saved \cup {pathname}
              /\ removed' = removed \ {pathname}
              /\ storeResponse' = [kind |-> "recording", backend |-> "memory",
                                   pathname |-> pathname]
    /\ UNCHANGED <<blobToken, blobs>>
    /\ OnlyStore

\* GET: the token is set and list() resolves.
GetFromBlob ==
    /\ blobToken
    /\ \E l \in Listings(blobs) :
           storeResponse' = [kind |-> "list", backend |-> "blob",
                             recordings |-> [i \in 1..Len(l) |-> [pathname |-> l[i]]]]
    /\ UNCHANGED <<blobToken, blobs, recordings, clock, saved, removed>>
    /\ OnlyStore

\* GET: no token, or list() rejects; the array is returned.
GetFromMemory ==
    /\ storeResponse' = [kind |-> "list", backend |-> "memory",
                         recordings |-> recordings]
    /\ UNCHANGED <<blobToken, blobs, recordings, clock, saved, removed>>
    /\ OnlyStore

\* DELETE without a pathname parameter: 400.
DeleteNoPathname ==
    /\ storeResponse' = [kind |-> "error", status |-> 400,
                         error |-> "No pathname provided"]
    /\ UNCHANGED <<blobToken, blobs, recordings, clock, saved, removed>>
    /\ OnlyStore

\* DELETE: the token is set and del() resolves, as it does whether or not a
\* blob has that pathname.
DeleteFromBlob ==
    /\ blobToken
    /\ \E pathname \in Pathnames :
           /\ blobs' = blobs \ {pathname}
           /\ saved' = saved \ {pathname}
           /\ removed' = removed \cup {pathname}
           /\ storeResponse' = [kind |-> "delete", backend |-> "blob",
                                pathname |-> pathname, success |-> TRUE,
                                blobsBefore |-> blobs, before |-> recordings]
    /\ UNCHANGED <<blobToken, recordings, clock>>
    /\ OnlyStore

\* DELETE: no token, or del() rejects; the array is filtered.
DeleteFromMemory ==
    /\ \E pathname \in Pathnames :
           LET initialLength == Len(recordings)
               filtered      == FilterOut(recordings, pathname)
               deleted       == Len(filtered) < initialLength
           IN /\ recordings' = filtered
              /\ saved' = IF deleted THEN saved \ {pathname} ELSE saved
              /\ removed' = IF deleted THEN removed \cup {pathname} ELSE removed
              /\ storeResponse' = [kind |-> "delete", backend |-> "memory",
                                   pathname |-> pathname, success |-> deleted,
                                   blobsBefore |-> blobs, before |-> recordings]
    /\ UNCHANGED <<blobToken, blobs, clock>>
    /\ OnlyStore

(***************************************************************************)
(* The end of a pipeline: combineTranscriptionResults of the UI, the       *)
(* result state and the results prop of TranscriptionResults               *)
(***************************************************************************)

\* JSON.stringify(value, null, 2): the text is held as the value it denotes.
Stringify(value) == [kind |-> "json", value |-> value]

\* The state "" of jsonOutput.
NoJson == [kind |-> "empty"]

\* ` [Speaker ${paragraph.speaker}]` when paragraph.speaker !== undefined; the
\* segments of the Gemini normalizer carry speaker: null when no speaker matched.
SpeakerLabel(paragraph) ==
    IF "hasSpeaker" \in DOMAIN paragraph
    THEN " [Speaker " \o (IF paragraph.hasSpeaker THEN paragraph.speaker ELSE "null")
         \o "]"
    ELSE ""

\* The line of one paragraph; start and end are "0.00" when absent or null.
ParagraphLine(paragraph) ==
    LET start == IF "start" \in DOMAIN paragraph THEN ToFixed2(paragraph.start)
                 ELSE "0.00"
        end   == IF "end" \in DOMAIN paragraph THEN ToFixed2(paragraph.end)
                 ELSE "0.00"
    IN "[" \o start \o "s - " \o end \o "s]" \o SpeakerLabel(paragraph) \o " "
       \o paragraph.text

\* The else branch of the UI's combineTranscriptionResults: a single object.
UiCombineObject(res) ==
    LET paragraphs == IF "paragraphs" \in DOMAIN res
                      THEN ItemsOrNone(res.paragraphs) ELSE <<>>
    IN [kind        |-> "combined",
        text        |-> res.text,
        timestamped |-> Join([i \in 1..Len(paragraphs) |-> ParagraphLine(paragraphs[i])],
                             "\n"),
        json        |-> res,
        fullResults |-> res]

\* The UI's combineTranscriptionResults.
UiCombine(res) ==
    IF res.kind = "array" THEN UiCombineArray(res.items) ELSE UiCombineObject(res)

\* { ...a, ...b }
Spread(a, b) ==
    [f \in DOMAIN a \cup DOMAIN b |-> IF f \in DOMAIN b THEN b[f] ELSE a[f]]

\* The results prop handed to TranscriptionResults.
ResultsProp ==
    IF transcriptText = "" THEN Null
    ELSE LET parsed == IF jsonOutput = NoJson THEN [kind |-> "object"]
                       ELSE jsonOutput.value
         IN Spread([kind        |-> "props",
                    text        |-> transcriptText,
                    timestamped |-> timestampedText,
                    raw         |-> IF jsonOutput = NoJson THEN Null
                                    ELSE jsonOutput.value],
                   IF "fullResults" \in DOMAIN parsed THEN parsed.fullResults
                   ELSE [kind |-> "props"])

\* What the Deepgram route answers with for the bodies Deepgram can send.
DeepgramResults ==
    {processDeepgramResponse(resp) : resp \in Responses} \ {[kind |-> "throw", error |-> "TypeError"]}

\* What the Gemini route answers with for one-line texts.
GeminiResults ==
    {processGeminiResponse(<<line>>, [i \in 1..RandomCalls(Flatten(<<line>>)) |-> 0]) :
        line \in GeminiLines}

PresentInit ==
    /\ selectedProvider \in ProviderItems
    /\ transcriptionResults = Pending
    /\ transcriptText = ""
    /\ timestampedText = ""
    /\ jsonOutput = NoJson

PresentIdle ==
    /\ selectedProvider = "deepgram"
    /\ transcriptionResults = Pending
    /\ transcriptText = ""
    /\ timestampedText = ""
    /\ jsonOutput = NoJson

\* transcribeWithOpenAI resolves for n chunks.
OpenAIResolves ==
    /\ selectedProvider = "openai"
    /\ transcriptionResults = Pending
    /\ \E n \in 1..MaxUiChunks :
           transcriptionResults' = UiCombineArray([i \in 1..n |-> SimulatedResult(i - 1)])
    /\ UNCHANGED <<selectedProvider, transcriptText, timestampedText, jsonOutput>>
    /\ OnlyPresent

\* transcribeWithDeepgram resolves with the body of the route.
DeepgramResolves ==
    /\ selectedProvider = "deepgram"
    /\ transcriptionResults = Pending
    /\ transcriptionResults' \in DeepgramResults
    /\ UNCHANGED <<selectedProvider, transcriptText, timestampedText, jsonOutput>>
    /\ OnlyPresent

\* transcribeWithGemini resolves with the body of the route.
GeminiResolves ==
    /\ selectedProvider = "gemini"
    /\ transcriptionResults = Pending
    /\ transcriptionResults' \in GeminiResults
    /\ UNCHANGED <<selectedProvider, transcriptText, timestampedText, jsonOutput>>
    /\ OnlyPresent

\* "Combine transcription results" and "Update UI with results" of the three
\* pipelines.
UpdateUi ==
    /\ transcriptionResults # Pending
    /\ jsonOutput = NoJson
    /\ LET combinedResults == UiCombine(transcriptionResults)
       IN /\ transcriptText' = combinedResults.text
          /\ timestampedText' = combinedResults.timestamped
          /\ jsonOutput' = Stringify(combinedResults.json)
    /\ UNCHANGED <<selectedProvider, transcriptionResults>>
    /\ OnlyPresent


\* The first seven components and the later ones, all idle.
EarlierIdle ==
    /\ SentimentIdle /\ DeepgramIdle /\ CombineIdle /\ ChunksIdle /\ OptionsIdle
    /\ DispatchIdle /\ LanguageIdle
MiddleIdle == GeminiIdle /\ CallIdle /\ AppIdle
LastIdle == SilenceIdle /\ SliceIdle /\ StoreIdle /\ PresentIdle
LaterIdle == MiddleIdle /\ LastIdle

InitSentiment ==
    /\ SentimentInit /\ DeepgramIdle /\ CombineIdle /\ ChunksIdle /\ OptionsIdle
    /\ DispatchIdle /\ LanguageIdle /\ LaterIdle
NextSentiment == CalculateOverallSentiment
SpecSentiment == InitSentiment /\ [][NextSentiment]_vars

InitDeepgram ==
    /\ SentimentIdle /\ DeepgramInit /\ CombineIdle /\ ChunksIdle /\ OptionsIdle
    /\ DispatchIdle /\ LanguageIdle /\ LaterIdle
NextDeepgram == ProcessDeepgramResponse
SpecDeepgram == InitDeepgram /\ [][NextDeepgram]_vars

InitCombine ==
    /\ SentimentIdle /\ DeepgramIdle /\ CombineInit /\ ChunksIdle /\ OptionsIdle
    /\ DispatchIdle /\ LanguageIdle /\ LaterIdle
NextCombine == CombineTranscriptionResults
SpecCombine == InitCombine /\ [][NextCombine]_vars

InitChunks ==
    /\ SentimentIdle /\ DeepgramIdle /\ CombineIdle /\ ChunksInit /\ OptionsIdle
    /\ DispatchIdle /\ LanguageIdle /\ LaterIdle
NextChunks ==
    \/ TranscribeAudioChunks
    \/ RequestSucceeds
    \/ RequestFails
SpecChunks == InitChunks /\ [][NextChunks]_vars

InitOptions ==
    /\ SentimentIdle /\ DeepgramIdle /\ CombineIdle /\ ChunksIdle /\ OptionsInit
    /\ DispatchIdle /\ LanguageIdle /\ LaterIdle
NextOptions ==
    \/ HandleProviderChange
    \/ UpdateOption
    \/ AddCustomTopic
    \/ RemoveCustomTopic
SpecOptions == InitOptions /\ [][NextOptions]_vars

InitDispatch ==
    /\ SentimentIdle /\ DeepgramIdle /\ CombineIdle /\ ChunksIdle
    /\ DispatchInit /\ LanguageIdle /\ LaterIdle
NextDispatch ==
    \/ Dispatch
    \/ RouteAnswersOk
    \/ RouteAnswersError
    \/ RouteUnreachable
    \/ OpenAITimerFires
SpecDispatch == InitDispatch /\ [][NextDispatch]_vars

InitLanguage ==
    /\ SentimentIdle /\ DeepgramIdle /\ CombineIdle /\ ChunksIdle /\ OptionsIdle
    /\ DispatchIdle /\ LanguageInit /\ LaterIdle
NextLanguage == DetectLanguage
SpecLanguage == InitLanguage /\ [][NextLanguage]_vars

InitGemini == EarlierIdle /\ GeminiInit /\ CallIdle /\ AppIdle /\ LastIdle
NextGemini == ProcessGeminiResponse
SpecGemini == InitGemini /\ [][NextGemini]_vars

InitCall == EarlierIdle /\ GeminiIdle /\ CallInit /\ AppIdle /\ LastIdle
NextCall ==
    \/ PostDeepgram
    \/ PostGemini
    \/ TranscribeAudio
    \/ DeepgramAnswersOk
    \/ DeepgramAnswersError
    \/ DeepgramUnreachable
    \/ GeminiAnswers
    \/ GeminiThrows
    \/ OpenAIAnswersOk
    \/ OpenAIAnswersError
    \/ OpenAIUnreachable
SpecCall == InitCall /\ [][NextCall]_vars

InitApp == EarlierIdle /\ GeminiIdle /\ CallIdle /\ AppInit /\ LastIdle
NextApp ==
    \/ StartRecording
    \/ MicGranted
    \/ MicDenied
    \/ DataAvailable
    \/ PauseRecording
    \/ ResumeRecording
    \/ StopRecording
    \/ RecorderStopped
    \/ HandleFileUpload
    \/ HandleRecordingSelect
    \/ SaveSucceeds
    \/ SaveFails
    \/ FetchSucceeds
    \/ FetchFails
    \/ ChunksReady
    \/ TranscriptionSucceeds
    \/ TranscriptionFails
    \/ DismissError
SpecApp == InitApp /\ [][NextApp]_vars

\* The positions at which a request waits for an event that comes by itself:
\* onstop after stop(), and the settling of an awaited promise.
AwaitedPositions == {"stopping", "saving", "fetching", "chunking", "transcribing"}

\* The event request p waits for arrives.
Settles(p) ==
    /\ p <= Len(pipelines)
    /\ pipelines[p].pc \in AwaitedPositions
    /\ NextApp
    /\ pipelines'[p].pc # pipelines[p].pc

\* SpecApp where every awaited promise settles and every stopped recorder
\* fires onstop.
SpecAppLive ==
    InitApp /\ [][NextApp]_vars /\ \A p \in 1..MaxRequests : WF_vars(Settles(p))

InitSilence ==
    EarlierIdle /\ MiddleIdle /\ SilenceInit /\ SliceIdle /\ StoreIdle /\ PresentIdle
NextSilence == DetectSilence
SpecSilence == InitSilence /\ [][NextSilence]_vars

InitSlice ==
    EarlierIdle /\ MiddleIdle /\ SilenceIdle /\ SliceInit /\ StoreIdle /\ PresentIdle
NextSlice ==
    \/ ChunkAudio
    \/ ProcessAudioChunks
    \/ ProcessAudioChunksError
SpecSlice == InitSlice /\ [][NextSlice]_vars

InitStore ==
    EarlierIdle /\ MiddleIdle /\ SilenceIdle /\ SliceIdle /\ StoreInit /\ PresentIdle
NextStore ==
    \/ PostNoFile
    \/ PostToBlob
    \/ PostToMemory
    \/ GetFromBlob
    \/ GetFromMemory
    \/ DeleteNoPathname
    \/ DeleteFromBlob
    \/ DeleteFromMemory
SpecStore == InitStore /\ [][NextStore]_vars

InitPresent ==
    EarlierIdle /\ MiddleIdle /\ SilenceIdle /\ SliceIdle /\ StoreIdle /\ PresentInit
NextPresent ==
    \/ OpenAIResolves
    \/ DeepgramResolves
    \/ GeminiResolves
    \/ UpdateUi
SpecPresent == InitPresent /\ [][NextPresent]_vars

(***************************************************************************)
(* Claims                                                                  *)
(***************************************************************************)

\* How often value v occurs in sequence seq.
CountIn(seq, v) == Cardinality({i \in 1..Len(seq) : seq[i] = v})

\* The elements of sequence seq.
Range(seq) == {seq[i] : i \in 1..Len(seq)}

\* Number of segments labelled with class c.
ClassCount(segs, c) == Cardinality({i \in 1..Len(segs) : segs[i].sentiment = c})

\* The highest count of a class.
MaxClassCount(segs) ==
    CHOOSE n \in 0..Len(segs) :
        /\ \E k \in 1..3 : ClassCount(segs, SentimentClasses[k]) = n
        /\ \A k \in 1..3 : ClassCount(segs, SentimentClasses[k]) <= n

\* The positions, in the enumeration order, of the classes with the highest count.
MaxClassPositions(segs) ==
    {k \in 1..3 : ClassCount(segs, SentimentClasses[k]) = MaxClassCount(segs)}

\* C1 as stated: the overall label is the class with the highest count among
\* the segment labels, and of several classes with the highest count the FIRST
\* in the order positive, negative, neutral wins, so that [positive, negative]
\* gives positive.
C1_FirstOfTiedClassesWins ==
    overallSentiment.kind = "overall" =>
        /\ \E k \in MaxClassPositions(sentimentSegments) :
              /\ overallSentiment.sentiment = SentimentClasses[k]
              /\ \A m \in MaxClassPositions(sentimentSegments) : k <= m
        /\ ([i \in 1..Len(sentimentSegments) |-> sentimentSegments[i].sentiment]
                = <<"positive", "negative">>
            => overallSentiment.sentiment = "positive")

\* C1 as amended: the overall label is the class with the highest count among
\* the segment labels, and of several classes with the highest count the LAST
\* in the order positive, negative, neutral wins, so that [positive, negative]
\* gives negative.
C1_LastOfTiedClassesWins ==
    overallSentiment.kind = "overall" =>
        /\ \E k \in MaxClassPositions(sentimentSegments) :
              /\ overallSentiment.sentiment = SentimentClasses[k]
              /\ \A m \in MaxClassPositions(sentimentSegments) : m <= k
        /\ ([i \in 1..Len(sentimentSegments) |-> sentimentSegments[i].sentiment]
                = <<"positive", "negative">>
            => overallSentiment.sentiment = "negative")

\* C1's case: segments labelled [positive, negative] have been classified.
C1_TieWitness ==
    /\ Len(sentimentSegments) = 2
    /\ sentimentSegments[1].sentiment = "positive"
    /\ sentimentSegments[2].sentiment = "negative"
    /\ overallSentiment.kind = "overall"
    /\ overallSentiment.sentiment = "negative"
    /\ overallSentiment.distribution =
          [positive |-> 1, negative |-> 1, neutral |-> 0]

\* Whether the response has a first channel with a first alternative.
HasAlternative(resp) ==
    /\ resp.results # Undefined
    /\ resp.results.channels # Undefined
    /\ Len(resp.results.channels.items) > 0
    /\ resp.results.channels.items[1].alternatives # Undefined
    /\ Len(resp.results.channels.items[1].alternatives.items) > 0

\* The speaker values observed on the words of the response.
ObservedSpeakers(resp) ==
    IF ~HasAlternative(resp) THEN {}
    ELSE LET alt == resp.results.channels.items[1].alternatives.items[1]
             ws  == IF alt.words = Undefined THEN <<>> ELSE alt.words.items
         IN {ws[i].speaker : i \in {j \in 1..Len(ws) : ws[j].hasSpeaker}}

\* C2 as stated: the speakers list of a normalized response holds every speaker
\* value observed on a word exactly once, in ascending numeric order (a < b for
\* adjacent entries a, b), ids of 10 or more included.
C2_SpeakersAscending ==
    processed.kind = "result" =>
        LET sp == processed.speakers.items IN
        /\ Range(sp) = ObservedSpeakers(response)
        /\ \A v \in Range(sp) : CountIn(sp, v) = 1
        /\ \A i \in 1..(Len(sp) - 1) : sp[i] < sp[i + 1]

RECURSIVE RebaseOffset(_, _)
\* The running offset of chunk k: the re-based end of the final segment of the
\* chunk before it, unchanged across a chunk without segments, 0 for the first.
RebaseOffset(rs, k) ==
    IF k = 1 THEN 0
    ELSE IF Len(SegmentsOf(rs[k - 1])) = 0 THEN RebaseOffset(rs, k - 1)
    ELSE SegmentsOf(rs[k - 1])[Len(SegmentsOf(rs[k - 1]))].end + RebaseOffset(rs, k - 1)

\* Segment j of chunk k as the claim expects it in the output.
RebasedSegment(rs, k, j) ==
    [start |-> SegmentsOf(rs[k])[j].start + RebaseOffset(rs, k),
     end   |-> SegmentsOf(rs[k])[j].end + RebaseOffset(rs, k)]

\* The places <<k, j>> of the input segments.
SegmentPlaces(rs) ==
    {p \in (1..Len(rs)) \X (1..MaxSegments) : p[2] <= Len(SegmentsOf(rs[p[1]]))}

\* C3: for two or more chunk results the output holds exactly the segments of
\* the first chunk unchanged and the segments of every later chunk with start
\* and end raised by the running offset (the re-based end of the final segment
\* of the chunk before, unchanged across a chunk without segments); chunks
\* [{0,2}] and [{0,2}] give the second chunk's segment as {2,4}.
C3_SegmentsRebased ==
    (combined # Pending /\ Len(results) >= 2) =>
        LET out == combined.segments.items
            expected == {RebasedSegment(results, p[1], p[2]) : p \in SegmentPlaces(results)}
        IN /\ Len(out) = Cardinality(SegmentPlaces(results))
           /\ \A v \in expected \cup Range(out) :
                 CountIn(out, v) =
                    Cardinality({p \in SegmentPlaces(results) :
                                    RebasedSegment(results, p[1], p[2]) = v})

\* C3's case: three chunks with segments, combined; the third chunk's segment
\* is raised by the re-based end of the second chunk's.
C3_RebasedWitness ==
    /\ Len(results) = 3
    /\ \A k \in 1..3 : results[k].segments = Arr(<<[start |-> 0, end |-> 2]>>)
    /\ combined # Pending
    /\ combined.segments.items =
          <<[start |-> 0, end |-> 2], [start |-> 2, end |-> 4], [start |-> 4, end |-> 6]>>

\* C4: with two or more chunks, once a request has failed the call has failed
\* and never returns a combined result; a result is returned only when every
\* request succeeded; no request is issued twice.
C4_AnyFailureAborts ==
    Len(chunks) >= 2 =>
        /\ Rejected(requests) # {} => svcOutcome.kind = "rejected"
        /\ svcOutcome.kind = "resolved" => Fulfilled(requests) = DOMAIN requests
        /\ \A i \in 1..Len(chunks) : issued[i] <= 1

\* C4's case: a chunk's request succeeded first, a sibling failed after it, and
\* the call is rejected.
C4_SiblingDiscardedWitness ==
    /\ Len(chunks) >= 2
    /\ Len(completions) >= 2
    /\ requests[completions[1]].state = "ok"
    /\ requests[completions[2]].state = "failed"
    /\ svcOutcome.kind = "rejected"

RECURSIVE TextsJoinedUpTo(_, _)
\* The texts of chunks 1..n, a single space between neighbours.
TextsJoinedUpTo(reqs, n) ==
    IF n = 1 THEN reqs[1].body.text
    ELSE TextsJoinedUpTo(reqs, n - 1) \o " " \o reqs[n].body.text

\* C5: with two or more chunks every request is issued before the caller awaits
\* a response, and the combined text of a successful call is the chunk texts in
\* chunk order with one space between them, whatever order the responses came in.
C5_IssueAllThenJoinInOrder ==
    Len(chunks) >= 2 =>
        /\ (svcPc # "idle" \/ completions # <<>>) =>
              \A i \in 1..Len(chunks) : issued[i] = 1 /\ requests[i].state # "none"
        /\ svcOutcome.kind = "resolved" =>
              svcOutcome.value.text = TextsJoinedUpTo(requests, Len(chunks))

\* C5's case: the responses arrived out of chunk order with different texts,
\* and the call succeeded.
C5_OutOfOrderWitness ==
    /\ Len(chunks) = 3
    /\ completions = <<3, 1, 2>>
    /\ requests[1].state = "ok" /\ requests[1].body.text = "uno"
    /\ requests[2].state = "ok" /\ requests[2].body.text = "dos tres"
    /\ requests[3].state = "ok" /\ requests[3].body.text = "dos tres"
    /\ svcOutcome.kind = "resolved"
    /\ svcOutcome.value.text = "uno dos tres dos tres"

\* C6 as stated: once the dispatcher is past its first await, deepgram and
\* gemini have issued exactly one request, carrying the first chunk, and openai
\* has issued or goes on to issue exactly one request per chunk: when it has
\* finished there is one request for every chunk.
C6_OneRequestPerChunkSent ==
    uiPc = "settled" =>
        IF transcriptionOptions.provider \in {"deepgram", "gemini"}
        THEN /\ Len(outbound) = 1
             /\ outbound[1].file = uiChunks[1]
        ELSE /\ Len(outbound) = Len(uiChunks)
             /\ \A i \in 1..Len(uiChunks) : outbound[i].file = uiChunks[i]

\* C6 as amended: deepgram and gemini issue exactly one request, to their own
\* route, carrying the first chunk whatever the number of chunks; openai issues
\* no request at all and makes up one result per chunk.
C6_OneRequestOrSimulation ==
    /\ uiPc = "idle" => outbound = <<>>
    /\ uiPc # "idle" =>
          IF transcriptionOptions.provider \in {"deepgram", "gemini"}
          THEN outbound = <<[url  |-> "/api/transcribe/" \o transcriptionOptions.provider,
                             file |-> uiChunks[1]]>>
          ELSE outbound = <<>>
    /\ (uiPc = "settled" /\ transcriptionOptions.provider = "openai") =>
          /\ Len(simulated) = Len(uiChunks)
          /\ uiOutcome.kind = "resolved"

\* C6's case: openai has handled several chunks and no request has left.
C6_SimulationWitness ==
    /\ transcriptionOptions.provider = "openai"
    /\ Len(uiChunks) = 3
    /\ uiPc = "settled"
    /\ uiOutcome.kind = "resolved"
    /\ Len(simulated) = 3
    /\ outbound = <<>>

\* The malformed responses of C7: results missing, no channels, a channel with
\* an empty alternatives list, a channel with no alternatives list.
IsMalformed(resp) ==
    \/ resp.results = Undefined
    \/ /\ resp.results # Undefined
       /\ resp.results.channels # Undefined
       /\ \/ Len(resp.results.channels.items) = 0
          \/ /\ Len(resp.results.channels.items) > 0
             /\ \/ resp.results.channels.items[1].alternatives = Undefined
                \/ /\ resp.results.channels.items[1].alternatives # Undefined
                   /\ Len(resp.results.channels.items[1].alternatives.items) = 0

\* C7 as stated: a malformed response never throws and gives the result with
\* every field at its empty default, paragraphs [] included, and raw the input.
C7_MalformedGivesDefaults ==
    (processed # Pending /\ IsMalformed(response)) =>
        processed =
            [kind |-> "result", text |-> "", speakers |-> Arr(<<>>), topics |-> Arr(<<>>),
             sentiment |-> Null, language |-> Null, confidence |-> 0,
             segments |-> Arr(<<>>), paragraphs |-> Arr(<<>>), raw |-> response]

\* C8 as stated: in every state of the options the model is the default model
\* of the provider.
C8_ModelIsProviderDefault ==
    transcriptionOptions.model =
        CASE transcriptionOptions.provider = "openai"   -> "whisper-1"
          [] transcriptionOptions.provider = "gemini"   -> "gemini-2.5-flash-preview-04-17"
          [] transcriptionOptions.provider = "deepgram" -> "nova-3"

\* C9 as stated: the overall confidence is the mean of the scores of all the
\* segments: confidence times the number of segments is the sum of every
\* segment's score, whatever its label.
C9_ConfidenceIsMeanOfAllScores ==
    overallSentiment.kind = "overall" =>
        /\ overallSentiment.confidence.den = Len(sentimentSegments)
        /\ overallSentiment.confidence.num =
              SumOver([i \in 1..Len(sentimentSegments) |->
                          sentimentSegments[i].sentiment_score],
                      1..Len(sentimentSegments))

RECURSIVE WordsIn(_, _)
\* How many words of the text, lower-cased, are in the vocabulary.
WordsIn(ws, vocabulary) ==
    IF ws = <<>> THEN 0
    ELSE (IF ToLowerCase(Head(ws)) \in vocabulary THEN 1 ELSE 0)
         + WordsIn(Tail(ws), vocabulary)

\* C10: "es" exactly when the Spanish count is strictly above both others, "fr"
\* exactly when the French count is, "en" in every other case (every tie for the
\* highest count and a text without a recognized word included).
C10_StrictlyHighestOrEnglish ==
    detected # "pending" =>
        LET en == WordsIn(text, englishWords)
            es == WordsIn(text, spanishWords)
            fr == WordsIn(text, frenchWords)
        IN /\ detected = "es" <=> (es > en /\ es > fr)
           /\ detected = "fr" <=> (fr > en /\ fr > es)
           /\ detected = "en" <=> ~(es > en /\ es > fr) /\ ~(fr > en /\ fr > es)

\* C10's case: Spanish and French tie for the highest count ("de" is a word of
\* both) and the text is detected as English.
C10_TieWitness ==
    /\ text = <<"de", "zebra">>
    /\ detected = "en"

\* The topic names of a result, in order.
TopicNames(result) ==
    [i \in 1..Len(result.topics.items) |-> result.topics.items[i].topic]

\* Phrases made of the capitalized words Quick, Brown and Fox only.
QuickBrownPhrases ==
    {"Quick", "Brown", "Fox", "Quick Brown", "Brown Fox", "Quick Brown Fox"}

\* C11 as stated: no emitted topic is a stop-list word, none has 2 characters
\* or fewer, and for the text "The Quick Brown Fox" the topics contain a phrase
\* of the words Quick, Brown, Fox without the stop word "The".
C11_StopWordsKeptOutOfTopics ==
    \A r \in 1..Len(geminiRuns) :
        LET names == TopicNames(geminiRuns[r]) IN
        /\ \A i \in 1..Len(names) : names[i] \notin commonWords /\ Len(names[i]) > 2
        /\ transcriptionText = <<(<<"The", " ", "Quick", " ", "Brown", " ", "Fox">>)>>
              => \E i \in 1..Len(names) : names[i] \in QuickBrownPhrases

\* C12 as stated: every topic confidence of a Gemini result lies in [0, 1]
\* (0..100 hundredths), however often the topic repeats.
C12_TopicConfidenceWithinUnit ==
    \A r \in 1..Len(geminiRuns) :
        \A i \in 1..Len(geminiRuns[r].topics.items) :
            /\ geminiRuns[r].topics.items[i].confidence >= 0
            /\ geminiRuns[r].topics.items[i].confidence <= 100

\* C13 as stated: no two entries of the topics list of a canonical result have
\* the same topic name; here for processDeepgramResponse on any provider list.
C13_TopicNamesDistinct ==
    processed.kind = "result" =>
        \A i, j \in 1..Len(processed.topics.items) :
            processed.topics.items[i].topic = processed.topics.items[j].topic => i = j

\* C19 as stated: two applications of processGeminiResponse to the same text
\* give results equal in every field but the topic confidences: the same topic
\* names in the same order, and all other fields identical.
C19_NormalizingTwiceAgrees ==
    Len(geminiRuns) = 2 =>
        /\ TopicNames(geminiRuns[1]) = TopicNames(geminiRuns[2])
        /\ [geminiRuns[1] EXCEPT !.topics = Null] = [geminiRuns[2] EXCEPT !.topics = Null]

\* A "Speaker N:", "Person X:" or capitalized "Name:" prefix: the number of
\* tokens up to and including the colon, 0 when the line has no such prefix.
SpeakerPrefixLength(line) ==
    IF /\ Len(line) >= 4 /\ line[1] = "Speaker" /\ line[2] = " "
       /\ line[3] \in Digits /\ line[4] = ":" THEN 4
    ELSE IF /\ Len(line) >= 4 /\ line[1] = "Person" /\ line[2] = " "
            /\ line[3] \in UpperLetters /\ line[4] = ":" THEN 4
    ELSE IF Len(line) >= 2 /\ line[1] \in CapWords /\ line[2] = ":" THEN 2
    ELSE 0

\* The lines of the text that hold more than whitespace, in order.
LinesWithContent(lines) ==
    SelectSeq(lines, LAMBDA l : \E i \in 1..Len(l) : l[i] \notin Whitespace)

\* C20 as stated: one segment per non-blank line, in line order; a line with a
\* speaker prefix gives that label as speaker and the trimmed rest as text, any
\* other line gives speaker null; speakers holds the distinct labels of the
\* segments, each once, in first-encounter order.
C20_OneSegmentPerLineWithSpeaker ==
    \A r \in 1..Len(geminiRuns) :
        LET lines    == LinesWithContent(transcriptionText)
            segments == geminiRuns[r].segments.items
            speakers == geminiRuns[r].speakers.items
            labelled == {i \in 1..Len(segments) : segments[i].hasSpeaker}
        IN /\ Len(segments) = Len(lines)
           /\ \A i \in 1..Len(lines) :
                 LET n == SpeakerPrefixLength(lines[i]) IN
                 IF n > 0
                 THEN /\ segments[i].hasSpeaker
                      /\ segments[i].speaker = ConcatTokens(SubSeq(lines[i], 1, n - 1))
                      /\ segments[i].text =
                            ConcatTokens(TrimTokens(SubSeq(lines[i], n + 1, Len(lines[i]))))
                 ELSE ~segments[i].hasSpeaker
           /\ {speakers[k] : k \in 1..Len(speakers)} = {segments[i].speaker : i \in labelled}
           /\ \A k, l \in 1..Len(speakers) : speakers[k] = speakers[l] => k = l
           /\ \A k, l \in 1..Len(speakers) :
                 k < l => \E i \in labelled :
                              /\ segments[i].speaker = speakers[k]
                              /\ \A j \in labelled : segments[j].speaker = speakers[l] => i < j

\* The message a route says a missing key with.
KeyNotConfiguredMessage(site) ==
    IF site = "deepgram"
    THEN "Deepgram API key not configured. Please set DEEPGRAM_API_KEY environment variable."
    ELSE "Gemini API key not configured. Please set GEMINI_API_KEY environment variable."

\* C14: a route that receives a file while the provider's key is not configured
\* never sends a request to the provider and never answers with a result; once
\* the handler has run, the answer is an error response with a message, which
\* names the missing key whenever the form could be read.  The handler runs
\* once: nothing is sent later either.
C14_MissingCredentialFailsWithoutCall ==
    (callSite \in {"deepgram", "gemini"} /\ callInput.hasFile /\ ~callInput.keyConfigured)
    => /\ providerRequests = <<>>
       /\ callPc \in {"received", "done"}
       /\ callResponse.kind \in {"pending", "error"}
       /\ callPc = "done" =>
             /\ callResponse.kind = "error"
             /\ callResponse.status = 500
             /\ callResponse.error # ""
             /\ callInput.optionsParse =>
                   callResponse.error = KeyNotConfiguredMessage(callSite)

\* C14's case: the Deepgram route got a file, has no key, and has answered.
C14_MissingCredentialWitness ==
    /\ callSite = "deepgram"
    /\ callInput.hasFile /\ callInput.optionsParse /\ ~callInput.keyConfigured
    /\ callPc = "done"
    /\ callResponse.kind = "error"
    /\ callResponse.error = KeyNotConfiguredMessage("deepgram")
    /\ providerRequests = <<>>

\* The structured message field of a non-2xx body: err_msg for Deepgram,
\* error.message for OpenAI; "" when the body has none or is not JSON.
StructuredMessage(site, errorText) ==
    LET errorJson == JsonParse(errorText) IN
    IF errorJson.kind = "throw" THEN ""
    ELSE IF site = "deepgram" THEN errorJson.err_msg ELSE errorJson.errorMessage

\* The message built from status and statusText.
StatusMessage(site, failure) ==
    (IF site = "deepgram" THEN "Deepgram API error: " ELSE "API Error: ")
    \o NumStr(failure.status) \o " " \o failure.statusText

\* The failure message the caller gets: the error field of the route's
\* response, the message of the error transcribeAudio throws.
SurfacedMessage == IF callResponse.kind = "error" THEN callResponse.error
                   ELSE callResponse.message

\* C15 as stated: after a non-2xx answer the call fails, and the message is
\* exactly the structured field of the body when there is one, else a generic
\* message built from status and statusText (whatever is added around it).
C15_StructuredMessageVerbatim ==
    (providerAnswer.kind = "http" /\ callPc = "done") =>
        LET structured == StructuredMessage(callSite, providerAnswer.errorText)
            generic    == StatusMessage(callSite, providerAnswer.failure)
        IN /\ callResponse.kind \in {"error", "throw"}
           /\ IF structured # "" THEN SurfacedMessage = structured
              ELSE SurfacedMessage \in
                       {before \o generic \o after :
                            before \in {"", "Transcription failed: "},
                            after \in {"", " - " \o providerAnswer.errorText}}

\* C15 amended: the Deepgram route answers with err_msg itself, transcribeAudio
\* throws "Transcription failed: " followed by error.message; without such a
\* field the message is the one built from status and statusText, followed by
\* " - " and the raw body when the body is not JSON, and again after
\* "Transcription failed: " in transcribeAudio.  The call never succeeds.
C15_StructuredMessageWithPrefix ==
    (providerAnswer.kind = "http" /\ callPc = "done") =>
        LET structured == StructuredMessage(callSite, providerAnswer.errorText)
            generic    == StatusMessage(callSite, providerAnswer.failure)
            before     == IF callSite = "openai" THEN "Transcription failed: " ELSE ""
            after      == IF JsonParse(providerAnswer.errorText).kind = "throw"
                          THEN " - " \o providerAnswer.errorText ELSE ""
        IN /\ callSite = "deepgram" =>
                 callResponse.kind = "error"
                 /\ callResponse.status = providerAnswer.failure.status
           /\ callSite = "openai" => callResponse.kind = "throw"
           /\ SurfacedMessage = IF structured # "" THEN before \o structured
                                ELSE before \o generic \o after

\* C15's case: OpenAI answered 401 with an error.message, and transcribeAudio
\* threw that message behind its prefix.
C15_PrefixedMessageWitness ==
    /\ callSite = "openai"
    /\ providerAnswer.kind = "http"
    /\ StructuredMessage("openai", providerAnswer.errorText) = "Incorrect API key provided"
    /\ callResponse.kind = "throw"
    /\ callResponse.message = "Transcription failed: Incorrect API key provided"

\* C16 as stated: when a transcription pipeline fails, the state its error
\* handling leaves holds the message built from the error, in status or in the
\* error state, and isProcessing is false.
C16_FailureMessageKept ==
    [][\A p \in 1..Len(pipelines) :
          (pipelines[p].pc # "failed" /\ pipelines'[p].pc = "failed")
          => /\ status' = pipelines'[p].message \/ error' = pipelines'[p].message
             /\ ~isProcessing']_vars

\* A new recording is in progress for request p, or the pipeline of the
\* uploaded file or selected recording of request p is running.
InProgress(p) ==
    pipelines[p].pc \in
        CASE pipelines[p].kind = "recording" ->
                 {"recording", "paused", "stopping", "saving", "chunking",
                  "transcribing"}
          [] pipelines[p].kind = "upload" -> {"saving", "chunking", "transcribing"}
          [] pipelines[p].kind = "select" -> {"fetching", "chunking", "transcribing"}

\* C17 as stated: while request p is in progress, no result field holds a
\* value of a request that started before p.
C17_EarlierResultDiscarded ==
    \A p \in 1..Len(pipelines) :
        InProgress(p) =>
            /\ resultFields.transcriptText \notin 1..(p - 1)
            /\ resultFields.timestampedText \notin 1..(p - 1)
            /\ resultFields.jsonOutput \notin 1..(p - 1)

\* C18 as stated: for zero, one or several chunk results, whatever the order
\* of the segments inside a chunk, the segments of the combined result are
\* non-decreasing by start, and each ends no earlier than it starts (every
\* input segment does).
C18_CombinedSegmentsAscending ==
    (combined # Pending /\ combined.segments # Undefined) =>
        LET out == combined.segments.items IN
        /\ \A i, j \in 1..Len(out) : i < j => out[i].start <= out[j].start
        /\ \A i \in 1..Len(out) : out[i].end >= out[i].start

\* C18 amended: two or more chunk results combine to segments non-decreasing by
\* start, whatever the order inside a chunk; one chunk result is returned as it
\* is, its segments in their own order; no chunk gives no segments list; and
\* every segment of the result ends no earlier than it starts.
C18_AscendingBeyondOneChunk ==
    combined # Pending =>
        /\ Len(results) = 0 => combined.segments = Undefined
        /\ Len(results) = 1 => combined = results[1]
        /\ Len(results) >= 2 =>
              \A i, j \in 1..Len(combined.segments.items) :
                  i < j => combined.segments.items[i].start <= combined.segments.items[j].start
        /\ combined.segments # Undefined =>
              \A i \in 1..Len(combined.segments.items) :
                  combined.segments.items[i].end >= combined.segments.items[i].start

\* C18's case: the first of two chunks has its segments out of order, and the
\* combined segments are in order.
C18_UnsortedChunkWitness ==
    /\ Len(results) = 2
    /\ results[1].segments = Arr(<<[start |-> 1, end |-> 3], [start |-> 0, end |-> 2]>>)
    /\ results[2].segments = Arr(<<[start |-> 0, end |-> 2]>>)
    /\ combined # Pending
    /\ combined.segments.items =
          <<[start |-> 0, end |-> 2], [start |-> 1, end |-> 3], [start |-> 2, end |-> 4]>>


\* C30 as stated: the distribution of analyzeSentiment holds counts per class,
\* each a non-negative integer, that sum to the number of words of the text,
\* and no word is counted in two classes.
C30_EachWordInOneClass ==
    \A k \in 1..Len(geminiRuns) :
        LET d     == geminiRuns[k].sentiment.overall.distribution
            words == LowerCaseWords(Flatten(transcriptionText))
        IN /\ d.positive >= 0 /\ d.negative >= 0 /\ d.neutral >= 0
           /\ d.positive + d.negative + d.neutral = Len(words)
           /\ \A i \in 1..Len(words) :
                  ~(IncludesSome(words[i], positiveWords)
                    /\ IncludesSome(words[i], negativeWords))


\* Whether fraction x is below fraction y.
FractionLess(x, y) == x.num * y.den < y.num * x.den

\* The maximal runs of samples below the threshold, as <<a, b>>: the samples
\* with 0-based indices a .. b - 1.
SilentRuns ==
    LET cd        == audioBuffer.channelData
        Silent(i) == Abs(cd[i + 1]) < silenceThreshold
    IN {ab \in (0..Len(cd)) \X (0..Len(cd)) :
           /\ ab[1] < ab[2]
           /\ \A i \in ab[1]..(ab[2] - 1) : Silent(i)
           /\ ab[1] = 0 \/ ~Silent(ab[1] - 1)
           /\ ab[2] = Len(cd) \/ ~Silent(ab[2])}

\* The runs of at least the minimum number of samples.
LongSilentRuns ==
    {ab \in SilentRuns :
        ab[2] - ab[1] >= SilenceFrames(minSilenceDuration, audioBuffer.sampleRate)}

\* C29: the ranges detectSilence returns are in increasing order and disjoint,
\* each has start < end, each is a maximal run of samples below the threshold
\* that is at least the minimum number of samples long, and every such run,
\* one that reaches the end of the buffer included, is reported exactly once.
C29_RangesAreTheLongSilentRuns ==
    silenceRanges # Pending =>
        LET rs == silenceRanges.items
            sr == audioBuffer.sampleRate
        IN /\ \A k \in 1..Len(rs) :
                  /\ FractionLess(rs[k].start, rs[k].end)
                  /\ \E ab \in LongSilentRuns :
                         /\ rs[k].start = Seconds(ab[1], sr)
                         /\ rs[k].end = Seconds(ab[2], sr)
           /\ \A k \in 1..(Len(rs) - 1) :
                  ~FractionLess(rs[k + 1].start, rs[k].end)
           /\ \A ab \in LongSilentRuns :
                  Cardinality({k \in 1..Len(rs) :
                                  /\ rs[k].start = Seconds(ab[1], sr)
                                  /\ rs[k].end = Seconds(ab[2], sr)}) = 1

\* C29's case: one range was returned, for a run that reaches the end of the
\* buffer, and a run shorter than the minimum was left out.
C29_RunAtEndWitness ==
    /\ silenceRanges # Pending
    /\ Len(silenceRanges.items) = 1
    /\ silenceRanges.items[1].end.num = Len(audioBuffer.channelData)
    /\ SilentRuns # LongSilentRuns


RECURSIVE ConcatChunks(_, _)
\* The samples / bytes of the chunks cs, one chunk after the other; field f
\* holds them.
ConcatChunks(cs, f) ==
    IF cs = <<>> THEN <<>> ELSE cs[1][f] \o ConcatChunks(Tail(cs), f)

\* C21 as stated: audio of at most 100 seconds gives one chunk equal to the
\* input, longer audio gives ceil(duration / 100) chunks, no chunk is longer
\* than 100 seconds, and the chunks in order, one after the other, are the
\* whole input, for chunkAudio and for processAudioChunks.
C21_ChunksAreTheConsecutivePieces ==
    /\ chunkBuffers # Pending =>
           LET cs      == chunkBuffers.items
               rate    == chunkInput.sampleRate
               samples == chunkInput.samples
           IN /\ Len(cs) = CeilDiv(Len(samples), 100 * rate)
              /\ Len(samples) <= 100 * rate => cs = <<chunkInput>>
              /\ \A k \in 1..Len(cs) : Len(cs[k].samples) \in 1..(100 * rate)
              /\ ConcatChunks(cs, "samples") = samples
    /\ blobChunks # Pending /\ blobChunks.loaded =>
           LET cs == blobChunks.items
           IN /\ Len(cs) = CeilDiv(blobChunks.duration, 100)
              /\ blobChunks.duration <= 100 => cs = <<audioBlob>>
              /\ ConcatChunks(cs, "bytes") = audioBlob.bytes


\* C22 as stated: DELETE answers success true exactly when a recording with
\* that pathname was stored and has been removed; on the in-memory store it
\* removes the recordings with that pathname, leaves the others as they were,
\* and answers false with the store unchanged when there is none; and after a
\* DELETE that answered success true no list holds that pathname.
C22_DeleteReportsRemoval ==
    /\ storeResponse.kind = "delete" =>
           LET pathname == storeResponse.pathname
               stored   == pathname \in storeResponse.blobsBefore
                               \cup PathnamesOf(storeResponse.before)
           IN /\ storeResponse.success = stored
              /\ storeResponse.success =>
                     pathname \notin blobs \cup PathnamesOf(recordings)
              /\ storeResponse.backend = "memory" =>
                     /\ recordings = FilterOut(storeResponse.before, pathname)
                     /\ ~storeResponse.success =>
                            recordings = storeResponse.before
    /\ storeResponse.kind = "list" =>
           PathnamesOf(storeResponse.recordings) \cap removed = {}

\* C23 as stated: a GET that answers with a list names every recording a POST
\* has returned and no DELETE has since reported success for.
C23_SavedRecordingsAreListed ==
    storeResponse.kind = "list" =>
        saved \subseteq PathnamesOf(storeResponse.recordings)


\* The pipeline of request p is running: it is past its start and has not
\* ended.
PipelineRunning(p) ==
    pipelines[p].pc \in {"saving", "fetching", "chunking", "transcribing"}

\* C24 as stated: at most one pipeline runs at any time, and isProcessing is
\* true in every state in which one runs.
C24_OnePipelineAtATime ==
    /\ Cardinality({p \in 1..Len(pipelines) : PipelineRunning(p)}) <= 1
    /\ (\E p \in 1..Len(pipelines) : PipelineRunning(p)) => isProcessing

\* C25 as stated: every stream with tracks not stopped is the one streamRef
\* holds, which the next stopRecording or resetRecording releases; once
\* either has run (streamRef is cleared) no acquired stream is left.
C25_EveryLiveStreamIsCurrent ==
    \A p \in liveStreams : streamRef = p

\* A recorder has been stopped and its onstop has not fired yet.
RecorderStopping == \E p \in 1..Len(pipelines) : pipelines[p].pc = "stopping"

\* The idle state of the recording controls.
RecordingIdle ==
    /\ ~isRecording /\ ~isPaused /\ ~isProcessing
    /\ mediaRecorderRef = 0
    /\ ~audioChunksRef

\* C26: once stopRecording has stopped an active recorder the app reaches the
\* idle state (nothing recording, paused or processing, recorder reference
\* and chunk buffer cleared), provided every awaited event arrives; and
\* isPaused implies isRecording in every state.
C26_StopLeadsToIdle ==
    /\ [](isPaused => isRecording)
    /\ RecorderStopping ~> RecordingIdle

\* C26's case: a recording was stopped, its pipeline failed, and the app is
\* idle.
C26_FailedRecordingWitness ==
    /\ RecordingIdle
    /\ \E p \in 1..Len(pipelines) :
           /\ pipelines[p].kind = "recording"
           /\ pipelines[p].pc = "failed"


\* The "[start - end] text" line of a combined segment.
SegmentLine(segment) ==
    "[" \o ToFixed2(segment.start) \o "s - " \o ToFixed2(segment.end) \o "s] "
    \o segment.text

\* C27 as stated: on the openai path, once the UI state is updated the
\* timestamped text has one line per combined segment, in start order, the
\* stored JSON is {text, segments}, and the text is the combined text: the
\* second pass through combineTranscriptionResults changes none of them.
C27_SecondCombineChangesNothing ==
    (selectedProvider = "openai" /\ jsonOutput # NoJson) =>
        LET first    == transcriptionResults
            segments == first.json.segments.items
        IN /\ transcriptText = first.text
           /\ timestampedText =
                  Join([i \in 1..Len(segments) |-> SegmentLine(segments[i])], "\n")
           /\ \A i \in 1..(Len(segments) - 1) : segments[i].start <= segments[i + 1].start
           /\ jsonOutput = Stringify([text |-> first.text, segments |-> Arr(segments)])

\* The fields of a canonical result that the results component reads.
RichFields == {"speakers", "paragraphs", "topics", "sentiment", "confidence", "language"}

\* C28 as stated: on the deepgram and gemini paths, after a transcription with
\* non-empty text the results prop carries the speakers, paragraphs, topics,
\* sentiment, confidence and language of the canonical result.
C28_RichFieldsReachTheComponent ==
    (selectedProvider \in {"deepgram", "gemini"} /\ jsonOutput # NoJson
     /\ transcriptText # "") =>
        \A f \in RichFields :
            /\ f \in DOMAIN ResultsProp
            /\ ResultsProp[f] = transcriptionResults[f]

=============================================================================
